---------------------------- MODULE Spec2Model ----------------------------
(***************************************************************************)
(* A model of the ferricc C compiler (abbychau/ferricc): the code          *)
(* generator of src/src/codegen.rs together with the x86-64 machine that   *)
(* runs the instructions it emits, the token-level includer of             *)
(* src/src/preprocessor.rs, the scanner of src/src/lexer.rs, the parser of *)
(* src/src/parser.rs, the type checker of src/src/typechecker.rs and the   *)
(* passes of src/src/main.rs that run them on one translation unit.        *)
(*                                                                         *)
(* 64-bit quantities (registers, i64 token payloads) are kept at their     *)
(* full width as little-endian sequences of 8 bytes, so that wrap-around   *)
(* and overflow are those of the real machine.                             *)
(***************************************************************************)
EXTENDS Integers, Sequences, FiniteSets, TLC

(***************************************************************************)
(* 64-bit words                                                            *)
(***************************************************************************)
Byte == 0..255

WordLen == 8

\* The word of a natural number below 2^31.
W64(n) ==
    [i \in 1..WordLen |->
        CASE i = 1 -> n % 256
          [] i = 2 -> (n \div 256) % 256
          [] i = 3 -> (n \div 65536) % 256
          [] i = 4 -> (n \div 16777216) % 256
          [] OTHER -> 0]

Zero64 == W64(0)
One64 == W64(1)
MinusOne64 == [i \in 1..WordLen |-> 255]
\* i64::MAX = 2^63 - 1 and i64::MIN = -2^63
MaxI64 == [i \in 1..WordLen |-> IF i = WordLen THEN 127 ELSE 255]
MinI64 == [i \in 1..WordLen |-> IF i = WordLen THEN 128 ELSE 0]

\* Addition of two equally long little-endian byte strings with carry in c;
\* the carry out of the top byte is dropped (arithmetic modulo 256^Len).
RECURSIVE AddBytes(_, _, _, _)
AddBytes(a, b, i, c) ==
    IF i > Len(a) THEN << >>
    ELSE LET s == a[i] + b[i] + c
         IN  << s % 256 >> \o AddBytes(a, b, i + 1, s \div 256)

NotBytes(a) == [i \in 1..Len(a) |-> 255 - a[i]]

Add64(a, b) == AddBytes(a, b, 1, 0)
Not64(a) == NotBytes(a)
Neg64(a) == AddBytes(NotBytes(a), [i \in 1..Len(a) |-> 0], 1, 1)
\* a - b = a + ~b + 1
SubBytes(a, b) == AddBytes(a, NotBytes(b), 1, 1)
Sub64(a, b) == SubBytes(a, b)

\* Unsigned comparison, from the most significant byte down.
RECURSIVE ULtFrom(_, _, _)
ULtFrom(a, b, i) ==
    IF i = 0 THEN FALSE
    ELSE IF a[i] # b[i] THEN a[i] < b[i]
    ELSE ULtFrom(a, b, i - 1)

ULt(a, b) == ULtFrom(a, b, Len(a))

IsNeg64(a) == a[WordLen] >= 128

\* Signed (two's complement) comparison.
SLt(a, b) ==
    IF IsNeg64(a) # IsNeg64(b) THEN IsNeg64(a) ELSE ULt(a, b)

\* Sum of the byte products a[i] * b[j] with i + j = k + 1.
RECURSIVE MulColumn(_, _, _, _)
MulColumn(a, b, k, i) ==
    IF i > k THEN 0 ELSE a[i] * b[k + 1 - i] + MulColumn(a, b, k, i + 1)

RECURSIVE MulFrom(_, _, _, _)
MulFrom(a, b, k, c) ==
    IF k > WordLen THEN << >>
    ELSE LET s == MulColumn(a, b, k, 1) + c
         IN  << s % 256 >> \o MulFrom(a, b, k + 1, s \div 256)

\* The low 64 bits of the product (the same for signed and unsigned).
Mul64(a, b) == MulFrom(a, b, 1, 0)

\* Bitwise operators on bytes, bit by bit; f is the truth table <<f00,f01,f10,f11>>.
RECURSIVE BitOpByte(_, _, _, _)
BitOpByte(f, x, y, n) ==
    IF n = 0 THEN 0
    ELSE f[2 * (x % 2) + (y % 2) + 1]
         + 2 * BitOpByte(f, x \div 2, y \div 2, n - 1)

And64(a, b) == [i \in 1..WordLen |-> BitOpByte(<<0, 0, 0, 1>>, a[i], b[i], 8)]
Or64(a, b) == [i \in 1..WordLen |-> BitOpByte(<<0, 1, 1, 1>>, a[i], b[i], 8)]
Xor64(a, b) == [i \in 1..WordLen |-> BitOpByte(<<0, 1, 1, 0>>, a[i], b[i], 8)]

Extend(a, n) == [i \in 1..n |-> IF i <= Len(a) THEN a[i] ELSE 0]

\* A byte string times a small natural m, truncated to Len(a) bytes.
RECURSIVE MulSmallFrom(_, _, _, _)
MulSmallFrom(a, m, i, c) ==
    IF i > Len(a) THEN << >>
    ELSE LET s == a[i] * m + c
         IN  << s % 256 >> \o MulSmallFrom(a, m, i + 1, s \div 256)

MulSmall(a, m) == MulSmallFrom(a, m, 1, 0)

\* The largest digit q in 0..255 with q * d <= r, found bit by bit from 128 down.
RECURSIVE DigitFrom(_, _, _, _)
DigitFrom(r, d, q, bit) ==
    IF bit = 0 THEN q
    ELSE IF ~ULt(r, MulSmall(d, q + bit))
         THEN DigitFrom(r, d, q + bit, bit \div 2)
         ELSE DigitFrom(r, d, q, bit \div 2)

\* Long division in base 256 of the 128-bit hi:lo by d: the quotient bytes
\* (least significant first) and the remainder after the k most significant
\* bytes of lo have been brought down.  Remainders are kept in 10 bytes:
\* below d < 2^64 between steps, below 2^72 inside one.
RECURSIVE DivBytes(_, _, _, _)
DivBytes(hi10, lo, d10, k) ==
    IF k = 0 THEN [q |-> << >>, r |-> hi10]
    ELSE LET p == DivBytes(hi10, lo, d10, k - 1)
             r2 == << lo[WordLen + 1 - k] >> \o SubSeq(p.r, 1, WordLen + 1)
             qd == DigitFrom(r2, d10, 0, 128)
         IN  [q |-> << qd >> \o p.q, r |-> SubBytes(r2, MulSmall(d10, qd))]

\* x86 `div r64`: #DE when the divisor is zero or the quotient does not fit.
DivFaults(hi, lo, d) == d = Zero64 \/ ~ULt(hi, d)

\* Quotient and remainder of the unsigned division of hi:lo by d (hi < d).
UDivMod(hi, lo, d) ==
    LET p == DivBytes(Extend(hi, WordLen + 2), lo, Extend(d, WordLen + 2), WordLen)
    IN  [q |-> p.q, r |-> SubSeq(p.r, 1, WordLen)]

(***************************************************************************)
(* Types and AST nodes (src/src/ast.rs).  Option<T> is a sequence of       *)
(* length 0 or 1; a node carries its location where the parser attaches    *)
(* one (Located), and the code generator reads none.                       *)
(***************************************************************************)
TVoid == [t |-> "Void", of |-> << >>, size |-> << >>]
TChar == [t |-> "Char", of |-> << >>, size |-> << >>]
TInt == [t |-> "Int", of |-> << >>, size |-> << >>]
TLong == [t |-> "Long", of |-> << >>, size |-> << >>]
TPointer(base) == [t |-> "Pointer", of |-> << base >>, size |-> << >>]
TArray(base, n) == [t |-> "Array", of |-> << base >>, size |-> << n >>]
TArrayUnsized(base) == [t |-> "Array", of |-> << base >>, size |-> << >>]
TFunction(ret, params, variadic) ==
    [t |-> "Function", of |-> << ret >>, size |-> << >>,
     params |-> params, variadic |-> variadic]

IntLiteral(w) == [kind |-> "IntLiteral", value |-> w]
CharLiteral(c) == [kind |-> "CharLiteral", value |-> c]
StringLiteral(str) == [kind |-> "StringLiteral", value |-> str]
Identifier(name) == [kind |-> "Identifier", name |-> name]
BinaryExpr(op, left, right) ==
    [kind |-> "BinaryExpr", op |-> op, left |-> left, right |-> right]
UnaryExpr(op, expr) == [kind |-> "UnaryExpr", op |-> op, expr |-> expr]
FunctionCall(name, args) == [kind |-> "FunctionCall", name |-> name, args |-> args]
ExpressionStmt(expr) == [kind |-> "ExpressionStmt", expr |-> expr]
ReturnStmt(value) == [kind |-> "ReturnStmt", value |-> value]
IfStmt(condition, then_branch, else_branch) ==
    [kind |-> "IfStmt", condition |-> condition, then_branch |-> then_branch,
     else_branch |-> else_branch]
WhileStmt(condition, body) ==
    [kind |-> "WhileStmt", condition |-> condition, body |-> body]
ForStmt(init, condition, increment, body) ==
    [kind |-> "ForStmt", init |-> init, condition |-> condition,
     increment |-> increment, body |-> body]
BlockStmt(statements) == [kind |-> "BlockStmt", statements |-> statements]
VarDecl(name, type_, initializer) ==
    [kind |-> "VarDecl", name |-> name, type_ |-> type_, initializer |-> initializer]
FunctionDecl(name, return_type, params, body) ==
    [kind |-> "FunctionDecl", name |-> name, return_type |-> return_type,
     params |-> params, body |-> body]
Program(declarations) == [kind |-> "Program", declarations |-> declarations]

\* A (name, type) parameter pair.
Param(name, type_) == [name |-> name, type_ |-> type_]

(***************************************************************************)
(* Emitted assembly: one record per output line.  An operand is a register,*)
(* an immediate (a 64-bit word), a memory reference [base-n] (n = 0 for    *)
(* [rax]), a global [name], a string entry [rip + .LCn], or a label:       *)
(* `.{prefix}{n}` from generate_label, `name` of a function, `.{name}ret`. *)
(***************************************************************************)
NoOpnd == [k |-> "none", r |-> "", n |-> 0, w |-> Zero64]
Reg(r) == [k |-> "reg", r |-> r, n |-> 0, w |-> Zero64]
Imm(w) == [k |-> "imm", r |-> "", n |-> 0, w |-> w]
ImmN(n) == [k |-> "imm", r |-> "", n |-> 0, w |-> W64(n)]
Mem(base, off) == [k |-> "mem", r |-> base, n |-> off, w |-> Zero64]
Global(name) == [k |-> "global", r |-> name, n |-> 0, w |-> Zero64]
RoData(n) == [k |-> "rodata", r |-> "LC", n |-> n, w |-> Zero64]
Label(prefix, n) == [k |-> "label", r |-> prefix, n |-> n, w |-> Zero64]
FuncLabel(name) == [k |-> "func", r |-> name, n |-> 0, w |-> Zero64]
RetLabel(name) == [k |-> "retlabel", r |-> name, n |-> 0, w |-> Zero64]
Directive(text) == [k |-> "directive", r |-> text, n |-> 0, w |-> Zero64]

Ins(op, a, b) == [op |-> op, a |-> a, b |-> b]
Ins1(op, a) == Ins(op, a, NoOpnd)
Ins0(op) == Ins(op, NoOpnd, NoOpnd)
\* A line `label:`
Def(label) == Ins("def", label, NoOpnd)
Dir(text) == Ins("dir", Directive(text), NoOpnd)

(***************************************************************************)
(* The code generator (src/src/codegen.rs).  A CodeGenerator is the record *)
(* of its fields plus err: "" while every call so far returned Ok, else    *)
(* the message of the first Err (the `?` operator returns it at once, so   *)
(* nothing is emitted and no field changes after it).                      *)
(***************************************************************************)
NewCodeGenerator ==
    [output |-> << >>, label_count |-> 0, string_literals |-> << >>,
     variables |-> << >>, current_function |-> << >>, stack_offset |-> 0,
     err |-> ""]

Variable(offset, type_) == [offset |-> offset, type_ |-> type_]

\* HashMap<String, Variable> as a sequence of (name, variable) entries with
\* distinct names; insert replaces the entry of a name already present.
MapHas(m, name) == \E i \in 1..Len(m) : m[i].name = name
MapGet(m, name) == m[CHOOSE i \in 1..Len(m) : m[i].name = name].var
MapInsert(m, name, var) ==
    IF MapHas(m, name)
    THEN [i \in 1..Len(m) |->
             IF m[i].name = name THEN [name |-> name, var |-> var] ELSE m[i]]
    ELSE Append(m, [name |-> name, var |-> var])

Ok(cg) == cg.err = ""
Emit(cg, ins) == IF Ok(cg) THEN [cg EXCEPT !.output = Append(@, ins)] ELSE cg
EmitAll(cg, lines) == IF Ok(cg) THEN [cg EXCEPT !.output = @ \o lines] ELSE cg
Fail(cg, msg) == IF Ok(cg) THEN [cg EXCEPT !.err = msg] ELSE cg

\* A counter that stays where it is
AfterLabelKept(cg) == cg

\* generate_label returns `.{prefix}{label_count}` and increments the counter.
generate_label(cg, prefix) == Label(prefix, cg.label_count)
AfterLabel(cg) == IF Ok(cg) THEN [cg EXCEPT !.label_count = @ + 1] ELSE cg

RECURSIVE size_of(_)
RECURSIVE StructSize(_, _)
StructSize(members, i) ==
    IF i > Len(members) THEN 0
    ELSE size_of(members[i].type_) + StructSize(members, i + 1)

\* -1 stands for the panic on an array of unknown size.
size_of(type_) ==
    CASE type_.t = "Void" -> 0
      [] type_.t = "Char" -> 1
      [] type_.t = "Int" -> 4
      [] type_.t = "Long" -> 8
      [] type_.t = "Pointer" -> 8
      [] type_.t = "Array" ->
            IF type_.size = << >> THEN -1
            ELSE size_of(type_.of[1]) * type_.size[1]
      [] type_.t = "Function" -> 8
      [] type_.t = "Struct" -> StructSize(type_.members, 1)

\* (n + align - 1) & !(align - 1), align a power of two
align_to(n, align) == ((n + align - 1) \div align) * align

ParamRegisters == << "rcx", "rdx", "r8", "r9" >>

\* The registers a call saves, in push order.
SavedRegisters == << "rbx", "rsi", "rdi", "rcx", "rdx", "r8", "r9", "r10", "r11" >>

RECURSIVE PushAll(_, _)
PushAll(regs, i) ==
    IF i > Len(regs) THEN << >>
    ELSE << Ins1("push", Reg(regs[i])) >> \o PushAll(regs, i + 1)

RECURSIVE PopAllReversed(_, _)
PopAllReversed(regs, i) ==
    IF i = 0 THEN << >>
    ELSE << Ins1("pop", Reg(regs[i])) >> \o PopAllReversed(regs, i - 1)

\* The comparison with its operands exchanged: flags of right - left.
SetCCSwapped(cc) ==
    << Ins("cmp", Reg("rax"), Reg("rcx")), Ins1(cc, Reg("al")),
       Ins("movzx", Reg("rax"), Reg("al")) >>

SetCC(cc) ==
    << Ins("cmp", Reg("rcx"), Reg("rax")), Ins1(cc, Reg("al")),
       Ins("movzx", Reg("rax"), Reg("al")) >>

\* The operator-specific sequence of a non-assign binary expression, emitted
\* after `pop rcx` (left in rcx, right in rax); label is the fresh label of
\* a logical operator.
BinaryOpLines(op, label) ==
    CASE op = "Add" -> << Ins("add", Reg("rax"), Reg("rcx")) >>
      [] op = "Subtract" ->
            << Ins("sub", Reg("rcx"), Reg("rax")), Ins("mov", Reg("rax"), Reg("rcx")) >>
      [] op = "Multiply" -> << Ins("imul", Reg("rax"), Reg("rcx")) >>
      [] op = "Divide" ->
            << Ins("mov", Reg("rdx"), ImmN(0)), Ins("mov", Reg("rax"), Reg("rcx")),
               Ins1("div", Reg("rax")) >>
      [] op = "Modulo" ->
            << Ins("mov", Reg("rdx"), ImmN(0)), Ins("mov", Reg("rax"), Reg("rcx")),
               Ins1("div", Reg("rax")), Ins("mov", Reg("rax"), Reg("rdx")) >>
      [] op = "Equal" -> SetCC("sete")
      [] op = "NotEqual" -> SetCC("setne")
      [] op = "Less" -> SetCC("setl")
      [] op = "LessEqual" -> SetCC("setle")
      [] op = "Greater" -> SetCC("setg")
      [] op = "GreaterEqual" -> SetCC("setge")
      [] op = "LogicalAnd" ->
            << Ins("cmp", Reg("rcx"), ImmN(0)), Ins1("je", label),
               Ins("cmp", Reg("rax"), ImmN(0)), Ins1("setne", Reg("al")),
               Ins("movzx", Reg("rax"), Reg("al")), Def(label) >>
      [] op = "LogicalOr" ->
            << Ins("cmp", Reg("rcx"), ImmN(0)), Ins1("jne", label),
               Ins("cmp", Reg("rax"), ImmN(0)), Ins1("setne", Reg("al")),
               Ins("movzx", Reg("rax"), Reg("al")), Def(label) >>
      [] op = "BitwiseAnd" -> << Ins("and", Reg("rax"), Reg("rcx")) >>
      [] op = "BitwiseOr" -> << Ins("or", Reg("rax"), Reg("rcx")) >>
      [] op = "BitwiseXor" -> << Ins("xor", Reg("rax"), Reg("rcx")) >>
      [] op = "ShiftLeft" ->
            << Ins("mov", Reg("rcx"), Reg("rax")), Ins("mov", Reg("rax"), Reg("rcx")),
               Ins("shl", Reg("rax"), Reg("cl")) >>
      [] op = "ShiftRight" ->
            << Ins("mov", Reg("rcx"), Reg("rax")), Ins("mov", Reg("rax"), Reg("rcx")),
               Ins("shr", Reg("rax"), Reg("cl")) >>

IsLogical(op) == op \in {"LogicalAnd", "LogicalOr"}

\* The fresh label of a logical operator is drawn after both operands and
\* `pop rcx` have been emitted.
BinaryOp(cg, op) ==
    IF IsLogical(op)
    THEN AfterLabel(EmitAll(cg,
             BinaryOpLines(op, generate_label(cg, IF op = "LogicalAnd" THEN "land" ELSE "lor"))))
    ELSE EmitAll(cg, BinaryOpLines(op, NoOpnd))

UnaryOpLines(op) ==
    CASE op = "Negate" -> << Ins1("neg", Reg("rax")) >>
      [] op = "LogicalNot" ->
            << Ins("cmp", Reg("rax"), ImmN(0)), Ins1("sete", Reg("al")),
               Ins("movzx", Reg("rax"), Reg("al")) >>
      [] op = "BitwiseNot" -> << Ins1("not", Reg("rax")) >>
      [] op = "Dereference" -> << Ins("mov", Reg("rax"), Mem("rax", 0)) >>

RECURSIVE generate_node(_, _)
RECURSIVE GenerateArgs(_, _, _)
RECURSIVE GenerateStatements(_, _, _)

\* The argument loop of a call: evaluate argument i into rax, then move it
\* to its register (the first four) or push it (the rest).
GenerateArgs(cg, args, i) ==
    IF i > Len(args) \/ ~Ok(cg) THEN cg
    ELSE GenerateArgs(
             Emit(generate_node(cg, args[i]),
                  IF i <= Len(ParamRegisters)
                  THEN Ins("mov", Reg(ParamRegisters[i]), Reg("rax"))
                  ELSE Ins1("push", Reg("rax"))),
             args, i + 1)

GenerateStatements(cg, statements, i) ==
    IF i > Len(statements) \/ ~Ok(cg) THEN cg
    ELSE GenerateStatements(generate_node(cg, statements[i]), statements, i + 1)

GenerateIdentifier(cg, node) ==
    IF MapHas(cg.variables, node.name)
    THEN LET var == MapGet(cg.variables, node.name)
         IN  CASE var.type_.t \in {"Char", "Int", "Long", "Pointer"} ->
                    Emit(cg, Ins("mov", Reg("rax"), Mem("rbp", var.offset)))
               [] var.type_.t = "Array" ->
                    Emit(cg, Ins("lea", Reg("rax"), Mem("rbp", var.offset)))
               [] OTHER -> Fail(cg, "Unsupported variable type")
    ELSE Emit(cg, Ins("mov", Reg("rax"), Global(node.name)))

\* an assignment that stores nothing, whatever its target is
GenerateAssignAnyTarget(cg, node) == generate_node(cg, node.right)

GenerateAssign(cg, node) ==
    CASE node.left.kind = "Identifier" ->
            LET c1 == generate_node(cg, node.right)
            IN  IF MapHas(c1.variables, node.left.name)
                THEN Emit(c1, Ins("mov",
                         Mem("rbp", MapGet(c1.variables, node.left.name).offset),
                         Reg("rax")))
                ELSE Emit(c1, Ins("mov", Global(node.left.name), Reg("rax")))
      [] node.left.kind = "UnaryExpr" /\ node.left.op = "Dereference" ->
            LET c1 == Emit(generate_node(cg, node.right), Ins1("push", Reg("rax")))
                c2 == generate_node(c1, node.left.expr)
            IN  EmitAll(c2, << Ins1("pop", Reg("rcx")),
                               Ins("mov", Mem("rax", 0), Reg("rcx")) >>)
      [] OTHER ->
            Fail(cg, "Left operand of assignment must be an identifier or dereferenced pointer")

GenerateBinaryExpr(cg, node) ==
    IF node.op = "Assign" THEN GenerateAssign(cg, node)
    ELSE LET c1 == Emit(generate_node(cg, node.left), Ins1("push", Reg("rax")))
             c2 == Emit(generate_node(c1, node.right), Ins1("pop", Reg("rcx")))
         IN  BinaryOp(c2, node.op)

GenerateUnaryExpr(cg, node) ==
    IF node.op = "AddressOf"
    THEN IF node.expr.kind = "Identifier"
         THEN IF MapHas(cg.variables, node.expr.name)
              THEN Emit(cg, Ins("lea", Reg("rax"),
                       Mem("rbp", MapGet(cg.variables, node.expr.name).offset)))
              ELSE Emit(cg, Ins("lea", Reg("rax"), Global(node.expr.name)))
         ELSE Fail(cg, "Cannot take address of non-lvalue")
    ELSE EmitAll(generate_node(cg, node.expr), UnaryOpLines(node.op))

\* A call that leaves the arguments it pushed on the stack
GenerateFunctionCallUncleaned(cg, node) ==
    EmitAll(Emit(GenerateArgs(EmitAll(cg, PushAll(SavedRegisters, 1)), node.args, 1),
                 Ins1("call", FuncLabel(node.name))),
            PopAllReversed(SavedRegisters, Len(SavedRegisters)))

GenerateFunctionCall(cg, node) ==
    LET c1 == EmitAll(cg, PushAll(SavedRegisters, 1))
        c2 == GenerateArgs(c1, node.args, 1)
        c3 == Emit(c2, Ins1("call", FuncLabel(node.name)))
        c4 == IF Len(node.args) > Len(ParamRegisters)
              THEN Emit(c3, Ins("add", Reg("rsp"),
                       ImmN((Len(node.args) - Len(ParamRegisters)) * 8)))
              ELSE c3
    IN  EmitAll(c4, PopAllReversed(SavedRegisters, Len(SavedRegisters)))

GenerateReturnStmt(cg, node) ==
    LET c1 == IF node.value # << >> THEN generate_node(cg, node.value[1]) ELSE cg
    IN  IF c1.current_function # << >>
        THEN Emit(c1, Ins1("jmp", RetLabel(c1.current_function[1])))
        ELSE Fail(c1, "Return statement outside of function")

GenerateIfStmt(cg, node) ==
    LET else_label == generate_label(cg, "else")
        c0 == AfterLabel(cg)
        end_label == generate_label(c0, "endif")
        c1 == EmitAll(generate_node(AfterLabel(c0), node.condition),
                      << Ins("cmp", Reg("rax"), ImmN(0)), Ins1("je", else_label) >>)
        c2 == EmitAll(generate_node(c1, node.then_branch),
                      << Ins1("jmp", end_label), Def(else_label) >>)
        c3 == IF node.else_branch # << >>
              THEN generate_node(c2, node.else_branch[1]) ELSE c2
    IN  Emit(c3, Def(end_label))

GenerateWhileStmt(cg, node) ==
    LET start_label == generate_label(cg, "while")
        c0 == AfterLabel(cg)
        end_label == generate_label(c0, "endwhile")
        c1 == EmitAll(generate_node(Emit(AfterLabel(c0), Def(start_label)),
                                    node.condition),
                      << Ins("cmp", Reg("rax"), ImmN(0)), Ins1("je", end_label) >>)
    IN  EmitAll(generate_node(c1, node.body),
                << Ins1("jmp", start_label), Def(end_label) >>)

GenerateForStmt(cg, node) ==
    LET start_label == generate_label(cg, "for")
        c0 == AfterLabel(cg)
        end_label == generate_label(c0, "endfor")
        c00 == AfterLabel(c0)
        inc_label == generate_label(c00, "forinc")
        c1 == IF node.init # << >>
              THEN generate_node(AfterLabel(c00), node.init[1]) ELSE AfterLabel(c00)
        c2 == Emit(c1, Def(start_label))
        c3 == IF node.condition # << >>
              THEN EmitAll(generate_node(c2, node.condition[1]),
                       << Ins("cmp", Reg("rax"), ImmN(0)), Ins1("je", end_label) >>)
              ELSE c2
        c4 == Emit(generate_node(c3, node.body), Def(inc_label))
        c5 == IF node.increment # << >>
              THEN generate_node(c4, node.increment[1]) ELSE c4
    IN  EmitAll(c5, << Ins1("jmp", start_label), Def(end_label) >>)

VarDeclAlign(type_) ==
    CASE type_.t = "Char" -> 1
      [] type_.t = "Int" -> 4
      [] OTHER -> 8

GenerateVarDecl(cg, node) ==
    LET size == size_of(node.type_)
        offset == align_to(cg.stack_offset + size, VarDeclAlign(node.type_))
        c1 == [cg EXCEPT !.stack_offset = offset,
                         !.variables = MapInsert(@, node.name,
                                                 Variable(offset, node.type_))]
        c2 == Emit(c1, Ins("sub", Reg("rsp"), ImmN(size)))
        c3 == generate_node(c2, node.initializer[1])
    IN  IF size < 0 THEN Fail(cg, "panic: Cannot determine size of array with unknown size")
        ELSE IF node.initializer # << >>
        THEN Emit(c3, Ins("mov", Mem("rbp", c3.stack_offset), Reg("rax")))
        ELSE c2

generate_node(cg, node) ==
    IF ~Ok(cg) THEN cg
    ELSE CASE node.kind = "IntLiteral" -> Emit(cg, Ins("mov", Reg("rax"), Imm(node.value)))
           [] node.kind = "CharLiteral" -> Emit(cg, Ins("mov", Reg("rax"), ImmN(node.value)))
           [] node.kind = "StringLiteral" ->
                Emit([cg EXCEPT !.string_literals = Append(@, node.value)],
                     Ins("lea", Reg("rax"), RoData(Len(cg.string_literals))))
           [] node.kind = "Identifier" -> GenerateIdentifier(cg, node)
           [] node.kind = "BinaryExpr" -> GenerateBinaryExpr(cg, node)
           [] node.kind = "UnaryExpr" -> GenerateUnaryExpr(cg, node)
           [] node.kind = "FunctionCall" -> GenerateFunctionCall(cg, node)
           [] node.kind = "ExpressionStmt" -> generate_node(cg, node.expr)
           [] node.kind = "ReturnStmt" -> GenerateReturnStmt(cg, node)
           [] node.kind = "IfStmt" -> GenerateIfStmt(cg, node)
           [] node.kind = "WhileStmt" -> GenerateWhileStmt(cg, node)
           [] node.kind = "ForStmt" -> GenerateForStmt(cg, node)
           [] node.kind = "BlockStmt" -> GenerateStatements(cg, node.statements, 1)
           [] node.kind = "VarDecl" -> GenerateVarDecl(cg, node)
           [] node.kind = "FunctionDecl" -> cg
           [] node.kind = "Program" -> Fail(cg, "panic: Nested program node")

\* The parameter loop of a function with a body: every parameter gets an
\* 8-byte home; the first four are pushed from their registers, a fifth is
\* an error.
RECURSIVE GenerateParams(_, _, _)
GenerateParams(cg, params, i) ==
    IF i > Len(params) \/ ~Ok(cg) THEN cg
    ELSE LET offset == cg.stack_offset + 8
             c1 == [cg EXCEPT !.stack_offset = offset,
                              !.variables = MapInsert(@, params[i].name,
                                                Variable(offset, params[i].type_))]
         IN  GenerateParams(
                 IF i <= Len(ParamRegisters)
                 THEN Emit(c1, Ins1("push", Reg(ParamRegisters[i])))
                 ELSE Fail(c1, "Stack parameters not implemented yet"),
                 params, i + 1)

GenerateGlobalVar(cg, node) ==
    LET c1 == EmitAll(cg, << Dir(".data"), Ins1(".globl", Global(node.name)),
                             Def(Global(node.name)) >>)
        c2 == CASE node.type_.t = "Char" -> Emit(c1, Ins1(".byte", ImmN(0)))
                [] node.type_.t = "Int" -> Emit(c1, Ins1(".long", ImmN(0)))
                [] node.type_.t = "Long" -> Emit(c1, Ins1(".quad", ImmN(0)))
                [] node.type_.t = "Array" /\ node.type_.size # << >> ->
                     IF size_of(node.type_.of[1]) < 0
                     THEN Fail(c1, "panic: Cannot determine size of array with unknown size")
                     ELSE Emit(c1, Ins1(".zero",
                              ImmN(size_of(node.type_.of[1]) * node.type_.size[1])))
                [] OTHER -> Fail(c1, "Unsupported global variable type")
    IN  Emit(c2, Dir(".text"))

\* A function with a body, up to its body: the per-function reset, the
\* prologue and the parameter homes.
FunctionProlog(cg, node) ==
    LET c1 == [cg EXCEPT !.current_function = << node.name >>,
                         !.variables = << >>,
                         !.stack_offset = 0]
        c2 == EmitAll(c1, << Def(FuncLabel(node.name)), Ins1("push", Reg("rbp")),
                             Ins("mov", Reg("rbp"), Reg("rsp")) >>)
    IN  GenerateParams(c2, node.params, 1)

GenerateFunction(cg, node) ==
    IF node.body = << >> THEN cg
    ELSE LET c3 == FunctionProlog(cg, node)
             c4 == EmitAll(generate_node(c3, node.body[1]),
                           << Def(RetLabel(node.name)), Ins("mov", Reg("rsp"), Reg("rbp")),
                              Ins1("pop", Reg("rbp")), Ins0("ret") >>)
         IN  IF Ok(c4) THEN [c4 EXCEPT !.current_function = << >>] ELSE c4

generate_declaration(cg, node) ==
    IF ~Ok(cg) THEN cg
    ELSE CASE node.kind = "VarDecl" -> GenerateGlobalVar(cg, node)
           [] node.kind = "FunctionDecl" -> GenerateFunction(cg, node)
           [] OTHER -> Fail(cg, "Expected declaration")

emit_header(cg) ==
    EmitAll(cg, << Dir(".intel_syntax noprefix"), Dir(".text"),
                   Ins1(".globl", FuncLabel("main")),
                   Ins1(".extern", FuncLabel("puts")), Ins1(".extern", FuncLabel("printf")),
                   Ins1(".extern", FuncLabel("scanf")), Ins1(".extern", FuncLabel("putchar")),
                   Ins1(".extern", FuncLabel("getchar")), Ins1(".extern", FuncLabel("atoi")) >>)

RECURSIVE StripEllipsis(_, _)
StripEllipsis(params, i) ==
    IF i > Len(params) THEN << >>
    ELSE (IF params[i].name = "..." THEN << >> ELSE << params[i].type_ >>)
         \o StripEllipsis(params, i + 1)

\* First pass of generate: every function declaration is entered in
\* `variables` with its function type.
RECURSIVE CollectFunctions(_, _, _)
CollectFunctions(cg, decls, i) ==
    IF i > Len(decls) THEN cg
    ELSE CollectFunctions(
             IF decls[i].kind = "FunctionDecl"
             THEN [cg EXCEPT !.variables = MapInsert(@, decls[i].name,
                      Variable(0, TFunction(decls[i].return_type,
                          StripEllipsis(decls[i].params, 1),
                          \E j \in 1..Len(decls[i].params) :
                              decls[i].params[j].name = "...")))]
             ELSE cg,
             decls, i + 1)

RECURSIVE GenerateDeclarations(_, _, _)
GenerateDeclarations(cg, decls, i) ==
    IF i > Len(decls) \/ ~Ok(cg) THEN cg
    ELSE GenerateDeclarations(generate_declaration(cg, decls[i]), decls, i + 1)

\* s.replace("\n", "\\n"): the text of a string, a sequence of characters,
\* with a backslash and an n for every newline
RECURSIVE Escaped(_, _)
Escaped(s, i) ==
    IF i > Len(s) THEN << >>
    ELSE (IF s[i] = "\n" THEN << "\\", "n" >> ELSE << s[i] >>) \o Escaped(s, i + 1)

RECURSIVE RoDataLines(_, _)
RoDataLines(strings, i) ==
    IF i > Len(strings) THEN << >>
    ELSE << Def(RoData(i - 1)), Ins1(".ascii", Directive(Escaped(strings[i], 1))),
            Ins1(".byte", ImmN(0)) >> \o RoDataLines(strings, i + 1)

\* CodeGenerator::generate: Ok(output) exactly when err = "".
generate(cg, program) ==
    IF program.kind # "Program" THEN Fail(emit_header(cg), "Expected program node")
    ELSE LET c1 == CollectFunctions(emit_header(cg), program.declarations, 1)
             c2 == GenerateDeclarations(c1, program.declarations, 1)
         IN  IF c2.string_literals # << >>
             THEN EmitAll(c2, << Dir(".section .rodata") >>
                              \o RoDataLines(c2.string_literals, 1))
             ELSE c2

(***************************************************************************)
(* The scanner (src/src/lexer.rs).  The input is a sequence of characters, *)
(* each a one-character string; NUL stands for the character '\0' and None *)
(* for the absence of a character (Option::None).                          *)
(***************************************************************************)
None == "None"
NUL == "NUL"

\* F applied to the value of v, which is computed once.
WithValue(F(_), v) == CHOOSE y \in {F(x) : x \in {v}} : TRUE

Digits == {"0", "1", "2", "3", "4", "5", "6", "7", "8", "9"}
OctDigits == {"0", "1", "2", "3", "4", "5", "6", "7"}
LowerHex == {"a", "b", "c", "d", "e", "f"}
UpperHex == {"A", "B", "C", "D", "E", "F"}
HexDigits == Digits \cup LowerHex \cup UpperHex
Lower == {"a", "b", "c", "d", "e", "f", "g", "h", "i", "j", "k", "l", "m", "n", "o", "p", "q", "r", "s", "t", "u", "v", "w", "x", "y", "z"}
Upper == {"A", "B", "C", "D", "E", "F", "G", "H", "I", "J", "K", "L", "M", "N", "O", "P", "Q", "R", "S", "T", "U", "V", "W", "X", "Y", "Z"}
Alphabetic == Lower \cup Upper
Whitespace == {" ", "\t", "\n", "\r"}

\* char::is_digit(radix) for the radixes the scanner asks about
is_digit(c, radix) ==
    CASE radix = 8 -> c \in OctDigits
      [] radix = 10 -> c \in Digits
      [] radix = 16 -> c \in HexDigits

\* char::to_digit: the value of a digit character
to_digit(c) ==
    CASE c \in Digits ->
            CHOOSE n \in 0..9 :
                c = << "0", "1", "2", "3", "4", "5", "6", "7", "8", "9" >>[n + 1]
      [] c \in LowerHex ->
            CHOOSE n \in 10..15 : c = << "a", "b", "c", "d", "e", "f" >>[n - 9]
      [] c \in UpperHex ->
            CHOOSE n \in 10..15 : c = << "A", "B", "C", "D", "E", "F" >>[n - 9]

\* KEYWORDS: spelling and token kind
KEYWORDS ==
    << << << "a", "u", "t", "o" >>, "Auto" >>,
       << << "b", "r", "e", "a", "k" >>, "Break" >>,
       << << "c", "a", "s", "e" >>, "Case" >>,
       << << "c", "h", "a", "r" >>, "Char" >>,
       << << "c", "o", "n", "s", "t" >>, "Const" >>,
       << << "c", "o", "n", "t", "i", "n", "u", "e" >>, "Continue" >>,
       << << "d", "e", "f", "a", "u", "l", "t" >>, "Default" >>,
       << << "d", "o" >>, "Do" >>,
       << << "d", "o", "u", "b", "l", "e" >>, "Double" >>,
       << << "e", "l", "s", "e" >>, "Else" >>,
       << << "e", "n", "u", "m" >>, "Enum" >>,
       << << "e", "x", "t", "e", "r", "n" >>, "Extern" >>,
       << << "f", "l", "o", "a", "t" >>, "Float" >>,
       << << "f", "o", "r" >>, "For" >>,
       << << "g", "o", "t", "o" >>, "Goto" >>,
       << << "i", "f" >>, "If" >>,
       << << "i", "n", "t" >>, "Int" >>,
       << << "l", "o", "n", "g" >>, "Long" >>,
       << << "r", "e", "g", "i", "s", "t", "e", "r" >>, "Register" >>,
       << << "r", "e", "t", "u", "r", "n" >>, "Return" >>,
       << << "s", "h", "o", "r", "t" >>, "Short" >>,
       << << "s", "i", "g", "n", "e", "d" >>, "Signed" >>,
       << << "s", "i", "z", "e", "o", "f" >>, "Sizeof" >>,
       << << "s", "t", "a", "t", "i", "c" >>, "Static" >>,
       << << "s", "t", "r", "u", "c", "t" >>, "Struct" >>,
       << << "s", "w", "i", "t", "c", "h" >>, "Switch" >>,
       << << "t", "y", "p", "e", "d", "e", "f" >>, "Typedef" >>,
       << << "u", "n", "i", "o", "n" >>, "Union" >>,
       << << "u", "n", "s", "i", "g", "n", "e", "d" >>, "Unsigned" >>,
       << << "v", "o", "i", "d" >>, "Void" >>,
       << << "v", "o", "l", "a", "t", "i", "l", "e" >>, "Volatile" >>,
       << << "w", "h", "i", "l", "e" >>, "While" >> >>

RECURSIVE KeywordFrom(_, _)
KeywordFrom(name, i) ==
    IF i > Len(KEYWORDS) THEN "Identifier"
    ELSE IF KEYWORDS[i][1] = name THEN KEYWORDS[i][2]
    ELSE KeywordFrom(name, i + 1)

Location(file, line, column) == [file |-> file, line |-> line, column |-> column]

\* Token::new: the kind with its payload (the characters of an identifier
\* or a string, the character of a character literal, the i64 of an integer
\* literal; << >> for the kinds without one), its location, the file name
\* copied from the location, and at_bol = false.
Token(kind, payload, loc) ==
    [kind |-> kind, payload |-> payload, location |-> loc,
     filename |-> loc.file, at_bol |-> FALSE]

\* Lexer::new; pos is the index of current_char, Len(input) + 1 once the
\* input is exhausted.
NewLexer(input, filename) ==
    [input |-> input, filename |-> filename, pos |-> 1, line |-> 1, column |-> 1]

current_char(lx) == IF lx.pos <= Len(lx.input) THEN lx.input[lx.pos] ELSE None

peek(lx) == IF lx.pos + 1 <= Len(lx.input) THEN lx.input[lx.pos + 1] ELSE None

location(lx) == Location(lx.filename, lx.line, lx.column)

advance(lx) ==
    LET c == current_char(lx)
    IN  IF c = None THEN lx
        ELSE IF c = "\n"
             THEN [lx EXCEPT !.pos = @ + 1, !.line = @ + 1, !.column = 1]
             ELSE [lx EXCEPT !.pos = @ + 1, !.column = @ + 1]

RECURSIVE skip_whitespace(_)
skip_whitespace(lx) ==
    IF current_char(lx) \in Whitespace THEN skip_whitespace(advance(lx)) ELSE lx

\* Results of the scanning functions: the lexer afterwards and either a
\* token or a lexical error (location and message).
LexOk(lx, token) == [lx |-> lx, ok |-> TRUE, token |-> token]
LexErr(lx, loc, msg) == [lx |-> lx, ok |-> FALSE, location |-> loc, message |-> msg]

\* The rest of a line comment: up to and including the newline.
RECURSIVE SkipLineComment(_)
SkipLineComment(lx) ==
    IF current_char(lx) = None THEN lx
    ELSE IF current_char(lx) = "\n" THEN advance(lx)
    ELSE SkipLineComment(advance(lx))

\* The rest of a block comment: up to and including the closing `*/`, or an
\* error at start_location when the input ends first.
RECURSIVE SkipBlockComment(_, _)
SkipBlockComment(lx, start_location) ==
    IF current_char(lx) = None
    THEN LexErr(lx, start_location, "Unterminated block comment")
    ELSE IF current_char(lx) = "*" /\ peek(lx) = "/"
         THEN LexOk(advance(advance(lx)), << >>)
         ELSE SkipBlockComment(advance(lx), start_location)

skip_comment(lx) ==
    IF current_char(lx) = "/" /\ peek(lx) = "/"
    THEN LexOk(SkipLineComment(advance(advance(lx))), << >>)
    ELSE IF current_char(lx) = "/" /\ peek(lx) = "*"
         THEN LET body == advance(advance(lx))
              IN  SkipBlockComment(body, location(body))
         ELSE LexOk(lx, << >>)

\* The characters of an identifier from the current position on.
RECURSIVE IdentifierChars(_)
IdentifierChars(lx) ==
    LET c == current_char(lx)
    IN  IF c \in Alphabetic \cup Digits \cup {"_"}
        THEN << c >> \o IdentifierChars(advance(lx))
        ELSE << >>

RECURSIVE AdvanceBy(_, _)
AdvanceBy(lx, n) == IF n = 0 THEN lx ELSE AdvanceBy(advance(lx), n - 1)

identifier(lx) ==
    LET start_location == location(lx)
        name == IdentifierChars(lx)
        kind == KeywordFrom(name, 1)
    IN  LexOk(AdvanceBy(lx, Len(name)),
              Token(kind, IF kind = "Identifier" THEN name ELSE << >>, start_location))

\* The characters from the current position on that are digits of the radix.
RECURSIVE DigitChars(_, _)
DigitChars(lx, radix) ==
    LET c == current_char(lx)
    IN  IF c # None /\ is_digit(c, radix)
        THEN << c >> \o DigitChars(advance(lx), radix)
        ELSE << >>

\* A non-negative value in WordLen + 1 bytes lies in the u64 range.
FitsU64(w) == w[WordLen + 1] = 0

\* A non-negative value in WordLen + 1 bytes lies in the i64 range.
FitsI64(w) == w[WordLen + 1] = 0 /\ w[WordLen] < 128

\* i64::from_str_radix on a string of digits without a sign: from the most
\* significant digit, a checked multiplication by the radix and a checked
\* addition of the digit; Err for the empty string and on overflow.
RECURSIVE FromDigits(_, _, _, _)
FromDigits(src, radix, i, acc) ==
    IF i > Len(src) THEN [ok |-> TRUE, value |-> acc]
    ELSE LET mul == MulSmall(Extend(acc, WordLen + 1), radix)
             add == AddBytes(mul, Extend(W64(to_digit(src[i])), WordLen + 1), 1, 0)
         IN  IF ~FitsI64(mul) \/ ~FitsI64(add)
             THEN [ok |-> FALSE, value |-> Zero64]
             ELSE FromDigits(src, radix, i + 1, SubSeq(add, 1, WordLen))

from_str_radix(src, radix) ==
    IF src = << >> THEN [ok |-> FALSE, value |-> Zero64]
    ELSE FromDigits(src, radix, 1, Zero64)

\* The literal once its characters are consumed: the token, or the error at
\* the start of the literal.
NumberResult(lx, parsed, start_location, message) ==
    IF parsed.ok
    THEN LexOk(lx, Token("IntLiteral", parsed.value, start_location))
    ELSE LexErr(lx, start_location, message)

number(lx) ==
    LET start_location == location(lx)
        l1 == advance(lx)
        c == current_char(l1)
    IN  IF current_char(lx) = "0" /\ c \in {"x", "X"}
        THEN LET digits == DigitChars(advance(l1), 16)
                 num == << "0", c >> \o digits
             IN  NumberResult(AdvanceBy(lx, Len(num)),
                              from_str_radix(SubSeq(num, 3, Len(num)), 16),
                              start_location, "Invalid hexadecimal literal")
        ELSE IF current_char(lx) = "0" /\ c # None /\ is_digit(c, 8)
        THEN LET num == << "0" >> \o DigitChars(l1, 8)
             IN  NumberResult(AdvanceBy(lx, Len(num)), from_str_radix(num, 8),
                              start_location, "Invalid octal literal")
        ELSE LET num == IF current_char(lx) = "0"
                        THEN << "0" >> \o DigitChars(l1, 10)
                        ELSE DigitChars(lx, 10)
             IN  NumberResult(AdvanceBy(lx, Len(num)), from_str_radix(num, 10),
                              start_location, "Invalid integer literal")

\* The escape sequences of character and string literals.
EscapeChars == {"n", "t", "r", "\\", "'", "\"", "0"}

Unescape(e) ==
    CASE e = "n" -> "\n"
      [] e = "t" -> "\t"
      [] e = "r" -> "\r"
      [] e = "0" -> NUL
      [] OTHER -> e

\* The closing quote of a character literal.
CloseCharLiteral(lx, c, start_location) ==
    IF current_char(lx) # "'"
    THEN LexErr(lx, location(lx), "Expected closing quote for character literal")
    ELSE LexOk(advance(lx), Token("CharLiteral", c, start_location))

char_literal(lx) ==
    LET start_location == location(lx)
        l1 == advance(lx)
        l2 == advance(l1)
    IN  IF current_char(l1) = None
        THEN LexErr(l1, location(l1), "Unterminated character literal")
        ELSE IF current_char(l1) # "\\"
        THEN CloseCharLiteral(l2, current_char(l1), start_location)
        ELSE IF current_char(l2) = None
        THEN LexErr(l2, location(l2), "Unterminated character literal")
        ELSE IF current_char(l2) \notin EscapeChars
        THEN LexErr(l2, location(l2), "Unknown escape sequence")
        ELSE CloseCharLiteral(advance(l2), Unescape(current_char(l2)), start_location)

\* A string literal after its opening quote.
RECURSIVE StringBody(_, _, _)
StringBody(lx, string, start_location) ==
    LET c == current_char(lx)
        l2 == advance(lx)
    IN  IF c = None
        THEN LexErr(lx, start_location, "Unterminated string literal")
        ELSE IF c = "\""
        THEN LexOk(l2, Token("StringLiteral", string, start_location))
        ELSE IF c # "\\"
        THEN StringBody(l2, Append(string, c), start_location)
        ELSE IF current_char(l2) = None
        THEN LexErr(l2, location(l2), "Unterminated string literal")
        ELSE IF current_char(l2) \notin EscapeChars
        THEN LexErr(l2, location(l2), "Unknown escape sequence")
        ELSE StringBody(advance(l2), Append(string, Unescape(current_char(l2))),
                        start_location)

string_literal(lx) == StringBody(advance(lx), << >>, location(lx))

\* After a `.`: the current character is not the second of three dots
\* (the mutation that does not look at the third).
TwoDotsFollowNoPeek(l1) == current_char(l1) = "."

\* After a `.`: the current character and the one after it are dots.
TwoDotsFollow(l1) == current_char(l1) = "." /\ peek(l1) = "."

\* Operators and punctuation other than `/`: c is the current character,
\* c1 the one after it.
Operator(lx) ==
    LET location_ == location(lx)
        c == current_char(lx)
        l1 == advance(lx)
        c1 == current_char(l1)
        l2 == advance(l1)
        c2 == current_char(l2)
        l3 == advance(l2)
        T1(kind) == LexOk(l1, Token(kind, << >>, location_))
        T2(kind) == LexOk(l2, Token(kind, << >>, location_))
        T3(kind) == LexOk(l3, Token(kind, << >>, location_))
    IN  CASE c = "+" -> IF c1 = "+" THEN T2("Increment")
                        ELSE IF c1 = "=" THEN T2("PlusAssign") ELSE T1("Plus")
          [] c = "-" -> IF c1 = "-" THEN T2("Decrement")
                        ELSE IF c1 = "=" THEN T2("MinusAssign")
                        ELSE IF c1 = ">" THEN T2("Arrow") ELSE T1("Minus")
          [] c = "*" -> IF c1 = "=" THEN T2("MultiplyAssign") ELSE T1("Asterisk")
          [] c = "%" -> IF c1 = "=" THEN T2("ModuloAssign") ELSE T1("Percent")
          [] c = "=" -> IF c1 = "=" THEN T2("Equal") ELSE T1("Assign")
          [] c = "!" -> IF c1 = "=" THEN T2("NotEqual") ELSE T1("LogicalNot")
          [] c = "<" -> IF c1 = "=" THEN T2("LessThanEqual")
                        ELSE IF c1 # "<" THEN T1("LessThan")
                        ELSE IF c2 = "=" THEN T3("ShiftLeftAssign") ELSE T2("ShiftLeft")
          [] c = ">" -> IF c1 = "=" THEN T2("GreaterThanEqual")
                        ELSE IF c1 # ">" THEN T1("GreaterThan")
                        ELSE IF c2 = "=" THEN T3("ShiftRightAssign") ELSE T2("ShiftRight")
          [] c = "&" -> IF c1 = "&" THEN T2("LogicalAnd")
                        ELSE IF c1 = "=" THEN T2("AndAssign") ELSE T1("BitwiseAnd")
          [] c = "|" -> IF c1 = "|" THEN T2("LogicalOr")
                        ELSE IF c1 = "=" THEN T2("OrAssign") ELSE T1("BitwiseOr")
          [] c = "^" -> IF c1 = "=" THEN T2("XorAssign") ELSE T1("BitwiseXor")
          [] c = "~" -> T1("BitwiseNot")
          [] c = "(" -> T1("LeftParen")
          [] c = ")" -> T1("RightParen")
          [] c = "{" -> T1("LeftBrace")
          [] c = "}" -> T1("RightBrace")
          [] c = "[" -> T1("LeftBracket")
          [] c = "]" -> T1("RightBracket")
          [] c = ";" -> T1("Semicolon")
          [] c = "," -> T1("Comma")
          [] c = "." -> IF TwoDotsFollow(l1) THEN T3("Ellipsis") ELSE T1("Dot")
          [] c = ":" -> T1("Colon")
          [] c = "?" -> T1("QuestionMark")
          [] c = "#" -> IF c1 = "#" THEN T2("HashHash") ELSE T1("Hash")
          [] OTHER -> LexErr(l1, location_, "Unexpected character")

RECURSIVE next_token(_)
next_token(lx0) ==
    LET lx == skip_whitespace(lx0)
        c == current_char(lx)
        location_ == location(lx)
        skipped == skip_comment(lx)
    IN  IF c = None THEN LexOk(lx, Token("Eof", << >>, location_))
        ELSE IF c = NUL THEN LexOk(advance(lx), Token("Eof", << >>, location_))
        ELSE IF c \in Alphabetic \cup {"_"} THEN identifier(lx)
        ELSE IF c \in Digits THEN number(lx)
        ELSE IF c = "'" THEN char_literal(lx)
        ELSE IF c = "\"" THEN string_literal(lx)
        ELSE IF c # "/" THEN Operator(lx)
        ELSE IF peek(lx) \in {"/", "*"}
        THEN IF skipped.ok THEN next_token(skipped.lx) ELSE skipped
        ELSE IF peek(lx) = "="
        THEN LexOk(advance(advance(lx)), Token("DivideAssign", << >>, location_))
        ELSE LexOk(advance(lx), Token("Slash", << >>, location_))

\* Lexer::tokenize from a lexer and the tokens pushed so far: the tokens up
\* to and including the first Eof, or the first error.
RECURSIVE TokenizeFrom(_, _)
TokenizeFrom(lx, toks) ==
    WithValue(LAMBDA r :
                  IF ~r.ok THEN [ok |-> FALSE, tokens |-> << >>,
                                 location |-> r.location, message |-> r.message]
                  ELSE IF r.token.kind = "Eof"
                  THEN [ok |-> TRUE, tokens |-> Append(toks, r.token)]
                  ELSE TokenizeFrom(r.lx, Append(toks, r.token)),
              next_token(lx))

tokenize(lx) == TokenizeFrom(lx, << >>)

(***************************************************************************)
(* The includer (src/src/preprocessor.rs) and the files it reads.  A path  *)
(* is a directory and a file name; the name is a sequence of characters.   *)
(***************************************************************************)
Path(dir, name) == [dir |-> dir, name |-> name]

\* Path::parent and Path::join for the one-level directories of the model
parent(path) == path.dir
join(dir, name) == Path(dir, name)

\* The files on disk: the translation unit is src/main.c.  s.h and k.h
\* include themselves, t.h and u.h each other, and e.h itself after a line
\* that is an error.
Files ==
    { [path |-> Path("src", << "a", ".", "h" >>), content |-> << "i", "n", "t", " ", "y", ";", "\n" >>],
      [path |-> Path("src", << "d", ".", "h" >>), content |-> << "#", "i", "n", "c", "l", "u", "d", "e", " ", "<", "b", ".", "h", ">", "\n", "i", "n", "t", " ", "v", ";", "\n" >>],
      [path |-> Path("include", << "b", ".", "h" >>), content |-> << "#", "i", "n", "c", "l", "u", "d", "e", " ", "\"", "c", ".", "h", "\"", "\n", "l", "o", "n", "g", " ", "z", ";", "\n" >>],
      [path |-> Path("include", << "c", ".", "h" >>), content |-> << "c", "h", "a", "r", " ", "w", ";", "\n" >>],
      [path |-> Path("src", << "s", ".", "h" >>),
       content |-> << "#", "i", "n", "c", "l", "u", "d", "e", " ", "\"", "s", ".", "h", "\"",
                     "\n" >>],
      [path |-> Path("src", << "k", ".", "h" >>),
       content |-> << "i", "n", "t", " ", "k", ";", "\n", "#", "i", "n", "c", "l", "u", "d",
                     "e", " ", "\"", "k", ".", "h", "\"", "\n", "i", "n",
                     "t", " ", "l", ";", "\n" >>],
      [path |-> Path("src", << "t", ".", "h" >>),
       content |-> << "#", "i", "n", "c", "l", "u", "d", "e", " ", "\"", "u", ".", "h", "\"",
                     "\n" >>],
      [path |-> Path("src", << "u", ".", "h" >>),
       content |-> << "i", "n", "t", " ", "u", ";", "\n", "#", "i", "n", "c", "l", "u", "d",
                     "e", " ", "\"", "t", ".", "h", "\"", "\n" >>],
      [path |-> Path("src", << "e", ".", "h" >>),
       content |-> << "#", "i", "n", "c", "l", "u", "d", "e", " ", "5", "\n", "#", "i", "n",
                     "c", "l", "u", "d", "e", " ", "\"", "e", ".", "h",
                     "\"", "\n" >>] }

exists(path) == \E f \in Files : f.path = path
read_to_string(path) == (CHOOSE f \in Files : f.path = path).content

\* What Lexer::tokenize makes of each file on disk; the files do not change
\* while the compiler runs.
Lexed ==
    {[path |-> f.path, lexed |-> tokenize(NewLexer(read_to_string(f.path), f.path))] :
        f \in Files}

\* Preprocessor::new followed by add_include_path("include")
include_paths == << "include" >>

PPErr(loc, msg) == [ok |-> FALSE, location |-> loc, message |-> msg]

\* tokens[i] with the source's indices, which start at 0
At(tokens, i) == tokens[i + 1]

\* The loop over the tokens of `<filename>`: from index i on, up to the
\* `>`; i in the result is the index of the `>`.
RECURSIVE AngleFilename(_, _, _, _)
AngleFilename(tokens, i, filename, token) ==
    IF i >= Len(tokens) THEN PPErr(token.location, "Unterminated include filename")
    ELSE IF At(tokens, i).kind = "GreaterThan"
    THEN [ok |-> TRUE, i |-> i, filename |-> filename]
    ELSE IF At(tokens, i).kind = "Identifier"
    THEN AngleFilename(tokens, i + 1, filename \o At(tokens, i).payload, token)
    ELSE IF At(tokens, i).kind = "Dot"
    THEN AngleFilename(tokens, i + 1, filename \o << "." >>, token)
    ELSE IF At(tokens, i).kind = "Slash"
    THEN AngleFilename(tokens, i + 1, filename \o << "/" >>, token)
    ELSE PPErr(At(tokens, i).location, "Invalid character in include filename")

\* The file name of the directive whose `include` is at index i0: the
\* name, whether it is the angle form, and the index i reached.
IncludeFilename(tokens, i0) ==
    LET i == i0 + 1
        token == At(tokens, i)
        angle == AngleFilename(tokens, i + 1, << >>, token)
    IN  IF i >= Len(tokens)
        THEN PPErr(At(tokens, i - 1).location, "Unexpected end of file after #include")
        ELSE IF token.kind = "StringLiteral"
        THEN [ok |-> TRUE, i |-> i, filename |-> token.payload, is_system |-> FALSE]
        ELSE IF token.kind # "LessThan"
        THEN PPErr(token.location, "Expected filename after #include")
        ELSE IF ~angle.ok THEN angle
        ELSE [ok |-> TRUE, i |-> angle.i + 1, filename |-> angle.filename,
              is_system |-> TRUE]

\* The first include path that holds the file, as a sequence of length 0 or 1.
RECURSIVE FoundPath(_, _)
FoundPath(filename, k) ==
    IF k > Len(include_paths) THEN << >>
    ELSE IF exists(join(include_paths[k], filename))
    THEN << join(include_paths[k], filename) >>
    ELSE FoundPath(filename, k + 1)

\* process_include up to its call of preprocess: the index i reached and
\* the tokens of the included file, or the error returned.
IncludedTokens(tokens, i0) ==
    LET name == IncludeFilename(tokens, i0)
        token == At(tokens, i0 + 1)
        found == IF name.is_system THEN FoundPath(name.filename, 1)
                 ELSE IF exists(join(parent(token.filename), name.filename))
                 THEN << join(parent(token.filename), name.filename) >>
                 ELSE << >>
        lexed == (CHOOSE l \in Lexed : l.path = found[1]).lexed
    IN  IF ~name.ok THEN name
        ELSE IF found = << >>
        THEN PPErr(token.location, "Cannot find include file")
        ELSE IF ~lexed.ok THEN PPErr(lexed.location, lexed.message)
        ELSE [ok |-> TRUE, i |-> name.i, tokens |-> lexed.tokens]

\* The activation of preprocess on a token vector.
Frame(tokens) == [tokens |-> tokens, i |-> 0, result |-> << >>]

(***************************************************************************)
(* The x86-64 machine that runs the emitted lines.  Memory is byte         *)
(* addressed; a register holds a 64-bit word; flags remember the operands  *)
(* of the last comparison.  A called function is the environment: it       *)
(* returns any value and may overwrite every volatile register (Microsoft  *)
(* x64 convention: rax, rcx, rdx, r8-r11).                                 *)
(***************************************************************************)
MemSize == 256

RegNames == {"rax", "rbx", "rcx", "rdx", "rsi", "rdi", "r8", "r9", "r10", "r11",
             "rsp", "rbp"}
VolatileRegs == {"rax", "rcx", "rdx", "r8", "r9", "r10", "r11"}

\* rsp at function entry (it points at the return address) and the cell the
\* pointer argument refers to.
EntryRsp == MemSize - 16
DataAddr == MemSize - 8

VARIABLES
    program,    \* the translation unit handed to the code generator
    entry,      \* the values of a, b, c with which f is entered
    cg,         \* the CodeGenerator
    status,     \* "source", "rejected", "running", "halted", "fault"
    pc,         \* index in cg.output of the next line to execute
    regs,       \* register file
    mem,        \* memory, byte by byte
    flags,      \* [valid, a, b]: operands of the last cmp
    executed,   \* the indices of the lines executed so far
    calls,      \* the calls made: name and argument registers at `call`
    lexer,      \* the Lexer of a tokenize run
    lex_tokens, \* the vector of tokens tokenize has pushed
    lex_status, \* "idle", "scanning", "done", "error"
    lex_error,  \* the error tokenize returned: << >> or one [location, message]
    pp_input,   \* the tokens handed to preprocess
    frames,     \* the activations of preprocess, innermost last
    pp_status,  \* "idle", "running", "done", "error"
    pp_result,  \* the tokens preprocess returned
    pp_error,   \* the error preprocess returned: << >> or one [location, message]
    main_source,   \* the text of main.c
    main_stage,    \* "idle", "source", "tokenized", "preprocessed", "parsed",
                   \* "checked", "generated", "failed", "panicked"
    main_tokens,   \* the tokens of the pass last run
    main_ast,      \* the Program node: << >> or one node
    main_checker,  \* the TypeChecker
    check_runs,    \* the number of runs of check_program
    main_assembly, \* the output of generate
    main_error     \* the error that ended the run: << >> or one [pass, location, message]

cgvars == << program, entry, cg, status, pc, regs, mem, flags, executed, calls >>
lexvars == << lexer, lex_tokens, lex_status, lex_error >>
ppvars == << pp_input, frames, pp_status, pp_result, pp_error >>
mainvars ==
    << main_source, main_stage, main_tokens, main_ast, main_checker, check_runs,
       main_assembly, main_error >>

\* The address a word denotes, or -1 when it lies outside memory.
ToAddr(w) ==
    IF \A i \in 3..WordLen : w[i] = 0 THEN w[1] + 256 * w[2] ELSE -1

Mapped(a) == a >= 0 /\ a + WordLen <= MemSize

Read64(m, a) == [i \in 1..WordLen |-> m[a + i - 1]]
Write64(m, a, w) ==
    [x \in DOMAIN m |-> IF x >= a /\ x < a + WordLen THEN w[x - a + 1] ELSE m[x]]

\* Effective address of a memory operand [base-n].
EffAddr(rf, o) ==
    LET b == ToAddr(rf[o.r]) IN IF b < 0 THEN -1 ELSE b - o.n

FullReg(r) == IF r = "al" THEN "rax" ELSE IF r = "cl" THEN "rcx" ELSE r

\* Whether reading or writing operand o faults (unmapped memory; globals
\* and string entries are not loaded in this machine).
OpndFaults(rf, o) ==
    CASE o.k = "mem" -> ~Mapped(EffAddr(rf, o))
      [] o.k \in {"reg", "imm"} -> FALSE
      [] OTHER -> TRUE

OpndValue(rf, m, o) ==
    CASE o.k = "reg" -> rf[o.r]
      [] o.k = "imm" -> o.w
      [] o.k = "mem" -> Read64(m, EffAddr(rf, o))

Line == cg.output[pc]
Running == status = "running" /\ pc \in 1..Len(cg.output)

\* Index of the line that defines a label (the first one, as the assembler
\* would reject a second), 0 when there is none.
LabelIndex(out, label) ==
    IF \E i \in 1..Len(out) : out[i] = Def(label)
    THEN CHOOSE i \in 1..Len(out) :
             out[i] = Def(label) /\ \A j \in 1..(i - 1) : out[j] # Def(label)
    ELSE 0

Step(newpc) ==
    /\ pc' = newpc
    /\ executed' = executed \cup {pc}
    /\ UNCHANGED << program, entry, cg, lexvars, ppvars, mainvars >>

Fault ==
    /\ status' = "fault"
    /\ Step(pc)
    /\ UNCHANGED << regs, mem, flags, calls >>

\* Store w in a register or memory operand.
StoreTo(o, w) ==
    IF o.k = "reg"
    THEN /\ regs' = [regs EXCEPT ![o.r] = w]
         /\ mem' = mem
    ELSE /\ mem' = Write64(mem, EffAddr(regs, o), w)
         /\ regs' = regs

\* Logical shifts by n in 0..63: whole bytes first, then bits.
Shl64(a, n) ==
    LET moved == [i \in 1..WordLen |->
                     IF i - (n \div 8) >= 1 THEN a[i - (n \div 8)] ELSE 0]
    IN  MulSmall(moved, 2 ^ (n % 8))

Shr64(a, n) ==
    LET at(i) == IF i + (n \div 8) <= WordLen THEN a[i + (n \div 8)] ELSE 0
    IN  [i \in 1..WordLen |->
            (at(i) \div (2 ^ (n % 8))) + (at(i + 1) % (2 ^ (n % 8))) * (2 ^ (8 - (n % 8)))]

NoFlags == [valid |-> FALSE, a |-> Zero64, b |-> Zero64]
CmpFlags(a, b) == [valid |-> TRUE, a |-> a, b |-> b]

\* The condition of a setcc/jcc after `cmp a, b`.
Cond(cc, f) ==
    CASE cc = "e" -> f.a = f.b
      [] cc = "ne" -> f.a # f.b
      [] cc = "l" -> SLt(f.a, f.b)
      [] cc = "le" -> ~SLt(f.b, f.a)
      [] cc = "g" -> SLt(f.b, f.a)
      [] cc = "ge" -> ~SLt(f.a, f.b)

SetccCond(op) ==
    CASE op = "sete" -> "e" [] op = "setne" -> "ne" [] op = "setl" -> "l"
      [] op = "setle" -> "le" [] op = "setg" -> "g" [] op = "setge" -> "ge"

\* Labels, directives and data lines: nothing to execute.
ExecSkip ==
    /\ Running
    /\ Line.op \in {"def", "dir", ".globl", ".extern", ".byte", ".long", ".quad",
                    ".zero", ".ascii"}
    /\ Step(pc + 1)
    /\ UNCHANGED << status, regs, mem, flags, calls >>

ExecMov ==
    /\ Running
    /\ Line.op = "mov"
    /\ IF OpndFaults(regs, Line.a) \/ OpndFaults(regs, Line.b) THEN Fault
       ELSE /\ StoreTo(Line.a, OpndValue(regs, mem, Line.b))
            /\ Step(pc + 1)
            /\ UNCHANGED << status, flags, calls >>

ExecLea ==
    /\ Running
    /\ Line.op = "lea"
    /\ IF Line.b.k # "mem" \/ EffAddr(regs, Line.b) < 0 THEN Fault
       ELSE /\ regs' = [regs EXCEPT ![Line.a.r] = W64(EffAddr(regs, Line.b))]
            /\ Step(pc + 1)
            /\ UNCHANGED << status, mem, flags, calls >>

ExecPush ==
    /\ Running
    /\ Line.op = "push"
    /\ LET sp == ToAddr(regs["rsp"]) - WordLen
       IN  IF ~Mapped(sp) THEN Fault
           ELSE /\ mem' = Write64(mem, sp, regs[Line.a.r])
                /\ regs' = [regs EXCEPT !["rsp"] = W64(sp)]
                /\ Step(pc + 1)
                /\ UNCHANGED << status, flags, calls >>

ExecPop ==
    /\ Running
    /\ Line.op = "pop"
    /\ LET sp == ToAddr(regs["rsp"])
       IN  IF ~Mapped(sp) THEN Fault
           ELSE /\ regs' = [regs EXCEPT !["rsp"] = W64(sp + WordLen),
                                        ![Line.a.r] = Read64(mem, sp)]
                /\ Step(pc + 1)
                /\ UNCHANGED << status, mem, flags, calls >>

AluOps == {"add", "sub", "imul", "and", "or", "xor", "neg", "not", "shl", "shr"}

AluResult(op, a, b) ==
    CASE op = "add" -> Add64(a, b)
      [] op = "sub" -> Sub64(a, b)
      [] op = "imul" -> Mul64(a, b)
      [] op = "and" -> And64(a, b)
      [] op = "or" -> Or64(a, b)
      [] op = "xor" -> Xor64(a, b)
      [] op = "neg" -> Neg64(a)
      [] op = "not" -> Not64(a)
      [] op = "shl" -> Shl64(a, b[1] % 64)
      [] op = "shr" -> Shr64(a, b[1] % 64)

\* sub leaves the flags of cmp; and/or/xor those of a comparison of the
\* result with 0; not leaves them alone; the others are not tracked.
AluFlags(op, a, b, res, old) ==
    CASE op = "sub" -> CmpFlags(a, b)
      [] op \in {"and", "or", "xor"} -> CmpFlags(res, Zero64)
      [] op = "not" -> old
      [] OTHER -> NoFlags

\* The destination of every emitted arithmetic instruction is a register.
ExecAlu ==
    /\ Running
    /\ Line.op \in AluOps
    /\ LET a == regs[Line.a.r]
           b == IF Line.b.k = "imm" THEN Line.b.w
                ELSE IF Line.b.k = "reg" THEN regs[FullReg(Line.b.r)]
                ELSE Zero64
           res == AluResult(Line.op, a, b)
       IN  /\ regs' = [regs EXCEPT ![Line.a.r] = res]
           /\ flags' = AluFlags(Line.op, a, b, res, flags)
    /\ Step(pc + 1)
    /\ UNCHANGED << status, mem, calls >>

ExecCmp ==
    /\ Running
    /\ Line.op = "cmp"
    /\ flags' = CmpFlags(OpndValue(regs, mem, Line.a), OpndValue(regs, mem, Line.b))
    /\ Step(pc + 1)
    /\ UNCHANGED << status, regs, mem, calls >>

\* setcc al: the low byte of rax becomes 1 or 0, the rest is kept.
ExecSetcc ==
    /\ Running
    /\ Line.op \in {"sete", "setne", "setl", "setle", "setg", "setge"}
    /\ IF ~flags.valid THEN Fault
       ELSE /\ regs' = [regs EXCEPT ![FullReg(Line.a.r)][1] =
                           IF Cond(SetccCond(Line.op), flags) THEN 1 ELSE 0]
            /\ Step(pc + 1)
            /\ UNCHANGED << status, mem, flags, calls >>

\* movzx rax, al
ExecMovzx ==
    /\ Running
    /\ Line.op = "movzx"
    /\ regs' = [regs EXCEPT ![Line.a.r] = W64(regs[FullReg(Line.b.r)][1])]
    /\ Step(pc + 1)
    /\ UNCHANGED << status, mem, flags, calls >>

ExecJump ==
    /\ Running
    /\ Line.op \in {"jmp", "je", "jne"}
    /\ LET target == LabelIndex(cg.output, Line.a)
           taken == CASE Line.op = "jmp" -> TRUE
                      [] Line.op = "je" -> Cond("e", flags)
                      [] Line.op = "jne" -> Cond("ne", flags)
       IN  IF target = 0 \/ (Line.op # "jmp" /\ ~flags.valid) THEN Fault
           ELSE /\ Step(IF taken THEN target ELSE pc + 1)
                /\ UNCHANGED << status, regs, mem, flags, calls >>

\* div r64: unsigned division of rdx:rax by the operand; quotient to rax,
\* remainder to rdx; #DE on a zero divisor or a quotient beyond 64 bits.
ExecDiv ==
    /\ Running
    /\ Line.op = "div"
    /\ LET d == regs[Line.a.r]
       IN  IF DivFaults(regs["rdx"], regs["rax"], d) THEN Fault
           ELSE LET qr == UDivMod(regs["rdx"], regs["rax"], d)
                IN  /\ regs' = [regs EXCEPT !["rax"] = qr.q, !["rdx"] = qr.r]
                    /\ flags' = NoFlags
                    /\ Step(pc + 1)
                    /\ UNCHANGED << status, mem, calls >>

\* What a callee may return and what it may leave in a clobbered register.
CalleeResults == {Zero64, W64(5)}
JunkWord == [i \in 1..WordLen |-> 204]

\* call name: the callee is outside the program.  The event records the
\* argument registers as the callee sees them.
ExecCall ==
    /\ Running
    /\ Line.op = "call"
    /\ \E ret \in CalleeResults, clobber \in BOOLEAN :
          /\ regs' = [r \in RegNames |->
                         IF r = "rax" THEN ret
                         ELSE IF clobber /\ r \in VolatileRegs THEN JunkWord
                         ELSE regs[r]]
          /\ calls' = Append(calls, [name |-> Line.a.r, at |-> pc, ret |-> ret,
                                     rcx |-> regs["rcx"], rdx |-> regs["rdx"],
                                     r8 |-> regs["r8"], r9 |-> regs["r9"],
                                     rsp |-> regs["rsp"]])
    /\ flags' = NoFlags
    /\ Step(pc + 1)
    /\ UNCHANGED << status, mem >>

\* ret pops the return address and leaves the function under test.
ExecRet ==
    /\ Running
    /\ Line.op = "ret"
    /\ status' = "halted"
    /\ regs' = [regs EXCEPT !["rsp"] = Add64(@, W64(WordLen))]
    /\ Step(pc)
    /\ UNCHANGED << mem, flags, calls >>

(***************************************************************************)
(* The programs compiled and run: one function                             *)
(*     long f(long a, long b, long c, long *p) { return EXPR; }            *)
(* after prototypes of the functions EXPR may call.  Its arguments arrive  *)
(* in rcx, rdx, r8, r9; p points at a cell outside the frame.              *)
(***************************************************************************)
TestParams ==
    << Param("a", TLong), Param("b", TLong), Param("c", TLong),
       Param("p", TPointer(TLong)) >>

TestProgramWith(params, expr) ==
    Program(<< FunctionDecl("g", TLong, << Param("x", TLong) >>, << >>),
               FunctionDecl("h", TLong, << Param("x", TLong), Param("...", TVoid) >>, << >>),
               FunctionDecl("f", TLong, params,
                            << BlockStmt(<< ReturnStmt(<< expr >>) >>) >>) >>)

TestProgram(expr) == TestProgramWith(TestParams, expr)

\* The expression under test of a test program.
TestExpr(prog) == prog.declarations[3].body[1].statements[1].value[1]

IdA == Identifier("a")
IdB == Identifier("b")
IdC == Identifier("c")
IdP == Identifier("p")

Values == {Zero64, One64, W64(2), W64(7), MinusOne64, MaxI64, MinI64}

ArithOps == {"Add", "Subtract", "Multiply", "Equal", "NotEqual", "Less",
             "LessEqual", "Greater", "GreaterEqual", "BitwiseAnd", "BitwiseOr",
             "BitwiseXor"}
DivOps == {"Divide", "Modulo"}

Input(expr, a, b, c) == [program |-> TestProgram(expr), a |-> a, b |-> b, c |-> c]

\* a OP b for every operator and every pair of values
BinaryInputs ==
    {Input(BinaryExpr(op, IdA, IdB), a, b, W64(3)) :
        op \in ArithOps \cup DivOps, a \in Values, b \in Values}

\* L && R and L || R with a right operand that has no effect, calls,
\* assigns to a local, or stores through the pointer
LogicalRights ==
    {IdB, FunctionCall("g", << IdB >>), BinaryExpr("Assign", IdC, IdB),
     BinaryExpr("Assign", UnaryExpr("Dereference", IdP), IdB)}

LogicalInputs ==
    {Input(BinaryExpr(op, IdA, right), a, b, W64(3)) :
        op \in {"LogicalAnd", "LogicalOr"}, right \in LogicalRights,
        a \in {Zero64, One64, W64(7), MinI64}, b \in {Zero64, W64(2), MinusOne64}}

\* The shapes an argument of a call takes.
ArgShapes ==
    {IdA, BinaryExpr("Add", IdB, IdC), BinaryExpr("Divide", IdB, IdC),
     BinaryExpr("Assign", UnaryExpr("Dereference", IdP), IdC),
     FunctionCall("g", << IdB >>), UnaryExpr("AddressOf", IdC)}

MaxCallArgs == 6

\* n identifier arguments a, b, c, a, ...
IdList(n) == [i \in 1..n |-> << IdA, IdB, IdC >>[((i - 1) % 3) + 1]]

\* Argument lists of up to MaxCallArgs arguments: identifiers with one
\* argument of any shape at any position, and all pairs of shapes.
CallArgLists ==
    UNION {{[IdList(n) EXCEPT ![j] = y] : j \in 1..n, y \in ArgShapes} :
              n \in 1..MaxCallArgs}
    \cup {<< x, y >> : x \in ArgShapes, y \in ArgShapes}

CallInputs ==
    {Input(FunctionCall("h", args), W64(7), W64(2), W64(3)) : args \in CallArgLists}

\* f with a fifth parameter, which would arrive on the stack
StackParamInput ==
    [program |-> TestProgramWith(TestParams \o << Param("q", TLong) >>, IdA),
     a |-> W64(7), b |-> W64(2), c |-> W64(3)]

Inputs == BinaryInputs \cup LogicalInputs \cup CallInputs \cup {StackParamInput}

EntryRegs(a, b, c) ==
    [r \in RegNames |->
        CASE r = "rcx" -> a
          [] r = "rdx" -> b
          [] r = "r8" -> c
          [] r = "r9" -> W64(DataAddr)
          [] r = "rsp" -> W64(EntryRsp)
          [] r = "rbp" -> W64(MemSize)
          [] OTHER -> JunkWord]

InitCG ==
    /\ \E inp \in Inputs :
          /\ program = inp.program
          /\ entry = [a |-> inp.a, b |-> inp.b, c |-> inp.c]
          /\ regs = EntryRegs(inp.a, inp.b, inp.c)
    /\ cg = NewCodeGenerator
    /\ status = "source"
    /\ pc = 0
    /\ mem = [x \in 0..(MemSize - 1) |-> 0]
    /\ flags = NoFlags
    /\ executed = {}
    /\ calls = << >>

\* The compiler run: generate the assembly; if that succeeded, enter f.
Compile ==
    /\ status = "source"
    /\ cg' = generate(NewCodeGenerator, program)
    /\ status' = IF Ok(cg') THEN "running" ELSE "rejected"
    /\ pc' = IF Ok(cg') THEN LabelIndex(cg'.output, FuncLabel("f")) ELSE 0
    /\ UNCHANGED << program, entry, regs, mem, flags, executed, calls >>
    /\ UNCHANGED << lexvars, ppvars, mainvars >>

NextCG ==
    \/ Compile
    \/ ExecSkip
    \/ ExecMov
    \/ ExecLea
    \/ ExecPush
    \/ ExecPop
    \/ ExecAlu
    \/ ExecCmp
    \/ ExecSetcc
    \/ ExecMovzx
    \/ ExecJump
    \/ ExecDiv
    \/ ExecCall
    \/ ExecRet

(***************************************************************************)
(* One run of Lexer::tokenize: each step is one iteration of its loop.     *)
(***************************************************************************)
LexIdle ==
    /\ lexer = NewLexer(<< >>, "")
    /\ lex_tokens = << >>
    /\ lex_status = "idle"
    /\ lex_error = << >>

\* n copies of the character c
Rep(c, n) == [i \in 1..n |-> c]

\* Strings over an alphabet of lengths 1 to n
RECURSIVE StringsUpTo(_, _)
StringsUpTo(alphabet, n) ==
    IF n = 0 THEN {}
    ELSE LET shorter == StringsUpTo(alphabet, n - 1)
         IN  {<< c >> : c \in alphabet} \cup shorter
             \cup {Append(s, c) : s \in shorter, c \in alphabet}

MaxSmallDigits == 2

\* The spellings of i64::MAX
MaxDecimal == << "9", "2", "2", "3", "3", "7", "2", "0", "3", "6", "8", "5",
   "4", "7", "7", "5", "8", "0", "7" >>
MaxHex == Rep("f", 2 * WordLen)
MaxOctal == Rep("7", 21)

\* s with one digit replaced, s with a digit appended, s with zeros in front
Variants(s, digits) ==
    {s} \cup {[s EXCEPT ![k] = d] : k \in 1..Len(s), d \in digits}
        \cup {Append(s, d) : d \in digits}
        \cup {Rep("0", 2) \o s}

DecimalSpellings ==
    {s \in StringsUpTo({"0", "1", "9"}, MaxSmallDigits) : s[1] # "0" \/ Len(s) = 1}
    \cup {s \in Variants(MaxDecimal, {"0", "8", "9"}) : s[1] # "0"}

HexSpellings ==
    {<< "0", x >> \o s :
        x \in {"x", "X"},
        s \in StringsUpTo({"0", "9", "a", "F"}, MaxSmallDigits)
              \cup Variants(MaxHex, {"0", "7", "8", "F"})
              \cup Variants(<< "7" >> \o Rep("F", 2 * WordLen - 1), {"8"})}

OctalSpellings ==
    {<< "0" >> \o s :
        s \in StringsUpTo({"0", "1", "7"}, MaxSmallDigits)
              \cup Variants(MaxOctal, {"0", "1", "7"})
              \cup Variants(<< "1" >> \o Rep("0", 21), {"1"})}

NumberInputs ==
    {s \o post : s \in DecimalSpellings \cup HexSpellings \cup OctalSpellings,
                 post \in {<< >>, << ";" >>}}

\* Text in front of a comment, and the text of a comment after its `/*`
\* in which no `*/` occurs.
CommentPrefixes ==
    { << >>,
      << "a", " " >>,
      << "a", "\n" >>,
      << "\n", "\n", " " >>,
      << "/", "*", " ", "x", " ", "*", "/", " " >>,
      << "/", "/", " ", "c", "\n" >>,
      << "x", " ", "=", " ", "1", ";", "\n", " ", " " >> }

OpenBodies ==
    { << >>,
      << "a" >>,
      << "*" >>,
      << "/" >>,
      << "\n" >>,
      << "*", " ", "/" >>,
      << "a", "\n", "b" >>,
      << " ", "/", "*", " " >> }

CommentInputs ==
    {pre \o << "/", "*" >> \o body \o close :
        pre \in CommentPrefixes, body \in OpenBodies,
        close \in {<< >>, << "*", "/" >>, << "*", "/", ";" >>}}

\* Other texts: every kind of token and every kind of error
OtherInputs ==
    { << "i", "n", "t", " ", "x", "1", " ", "=", " ", "a", " ", "<", "<",
       "=", " ", "b", ";" >>,
      << "a", ".", ".", ".", "b", ".", ".", " ", "c" >>,
      << "'", "\\", "n", "'", " ", "'", "a", "'", " ", "'", "\\", "q", "'" >>,
      << "\"", "a", "\\", "t", "b", "\"", " ", "\"", "c" >>,
      << "p", "-", ">", "q", " ", ">", ">", "=", " ", "~", "r", " ", "#",
         " ", "#", "#", " ", "@" >>,
      << "a", " ", "/", " ", "b", " ", "/", "=", " ", "c", " ", "/" >>,
      << "'", "a" >>,
      << "i", "f", " ", "(", "x", " ", "!", "=", " ", "y", " ", "&", "&",
         " ", "z", " ", "|", "|", " ", "!", "w", ")", " ", "{", " ", "r",
         "e", "t", "u", "r", "n", " ", "0", ";", " ", "}" >> }

\* Runs of operator characters: every text of up to MaxOperatorChars of the
\* characters that begin or continue a longer operator, every pair of
\* operator characters, and runs of dots.
MaxOperatorChars == 3

OperatorChars ==
    {"+", "-", "*", "/", "%", "=", "!", "<", ">", "&", "|", "^", "~", "(", ")",
     "{", "}", "[", "]", ";", ",", ".", ":", "?", "#"}

OperatorInputs ==
    StringsUpTo({"<", ">", "=", ".", "-", "+", "&", "|", "#", " "}, MaxOperatorChars)
    \cup {<< c, d >> : c \in OperatorChars, d \in OperatorChars}
    \cup {Rep(".", n) : n \in 4..7}
    \cup {Rep(c, 2) \o << "=" >> \o Rep(c, 2) : c \in {"<", ">"}}

LexInputs == NumberInputs \cup CommentInputs \cup OtherInputs \cup OperatorInputs

InitLex ==
    /\ \E text \in LexInputs : lexer = NewLexer(text, "main.c")
    /\ lex_tokens = << >>
    /\ lex_status = "scanning"
    /\ lex_error = << >>

\* next_token returned a token other than Eof: it is pushed.
LexToken ==
    /\ lex_status = "scanning"
    /\ next_token(lexer).ok
    /\ next_token(lexer).token.kind # "Eof"
    /\ lexer' = next_token(lexer).lx
    /\ lex_tokens' = Append(lex_tokens, next_token(lexer).token)
    /\ UNCHANGED << lex_status, lex_error, cgvars, ppvars, mainvars >>

\* next_token returned Eof: it is pushed and the loop ends.
LexEof ==
    /\ lex_status = "scanning"
    /\ next_token(lexer).ok
    /\ next_token(lexer).token.kind = "Eof"
    /\ lexer' = next_token(lexer).lx
    /\ lex_tokens' = Append(lex_tokens, next_token(lexer).token)
    /\ lex_status' = "done"
    /\ UNCHANGED << lex_error, cgvars, ppvars, mainvars >>

\* next_token returned an error: tokenize returns it and its vector is gone.
LexError ==
    /\ lex_status = "scanning"
    /\ ~next_token(lexer).ok
    /\ lexer' = next_token(lexer).lx
    /\ lex_tokens' = << >>
    /\ lex_status' = "error"
    /\ lex_error' = << [location |-> next_token(lexer).location,
                        message |-> next_token(lexer).message] >>
    /\ UNCHANGED << cgvars, ppvars, mainvars >>

(***************************************************************************)
(* One run of Preprocessor::preprocess on the tokens of src/main.c.  The   *)
(* recursion preprocess -> process_include -> preprocess is the stack      *)
(* `frames`; each step is one iteration of the loop of the innermost       *)
(* activation, or its return.                                              *)
(***************************************************************************)
PPIdle ==
    /\ pp_input = << >>
    /\ frames = << >>
    /\ pp_status = "idle"
    /\ pp_result = << >>
    /\ pp_error = << >>

\* The lines main.c is made of.
SourceLines ==
    { << "i", "n", "t", " ", "x", ";", "\n" >>,
      << "#", "i", "n", "c", "l", "u", "d", "e", " ", "\"", "a", ".", "h",
         "\"", "\n" >>,
      << "#", "i", "n", "c", "l", "u", "d", "e", " ", "<", "b", ".", "h",
         ">", "\n" >>,
      << "#", "i", "n", "c", "l", "u", "d", "e", " ", "\"", "d", ".", "h",
         "\"", "\n" >>,
      << "#", "d", "e", "f", "i", "n", "e", " ", "N", " ", "1", "0", "\n" >>,
      << "#", "p", "r", "a", "g", "m", "a", " ", "o", "n", "c", "e", "\n" >>,
      << "#", "i", "n", "c", "l", "u", "d", "e", " ", "\"", "n", ".", "h",
         "\"", "\n" >>,
      << "#", "i", "n", "c", "l", "u", "d", "e", " ", "<", "n", ".", "h",
         ">", "\n" >>,
      << "#", "i", "n", "c", "l", "u", "d", "e", " ", "<", "b", ".", "h",
         "\n" >>,
      << "#", "i", "n", "c", "l", "u", "d", "e", " ", "5", "\n" >>,
      << "#", "\n" >>,
      << "r", "e", "t", "u", "r", "n", " ", "y", ";", "\n" >> }

MaxLines == 3

RECURSIVE TextsUpTo(_)
TextsUpTo(n) ==
    IF n = 0 THEN {<< >>}
    ELSE LET shorter == TextsUpTo(n - 1)
         IN  shorter \cup {t \o l : t \in shorter, l \in SourceLines}

MainPath == Path("src", << "m", "a", "i", "n", ".", "c" >>)

InitPP ==
    /\ \E text \in TextsUpTo(MaxLines) :
          pp_input = tokenize(NewLexer(text, MainPath)).tokens
    /\ frames = << Frame(pp_input) >>
    /\ pp_status = "running"
    /\ pp_result = << >>
    /\ pp_error = << >>

Top == frames[Len(frames)]

\* The innermost activation is at a token of its loop.
AtToken == pp_status = "running" /\ Top.i < Len(Top.tokens)

PPFail(e) ==
    /\ pp_status' = "error"
    /\ pp_error' = << [location |-> e.location, message |-> e.message] >>
    /\ frames' = << >>
    /\ UNCHANGED << pp_input, pp_result >>

\* A token that is not `#` is copied to the result.
PPToken ==
    /\ UNCHANGED << cgvars, lexvars, mainvars >>
    /\ AtToken
    /\ At(Top.tokens, Top.i).kind # "Hash"
    /\ frames' = [frames EXCEPT ![Len(frames)] =
                     [@ EXCEPT !.result = Append(@, At(Top.tokens, Top.i)),
                               !.i = @ + 1]]
    /\ UNCHANGED << pp_input, pp_status, pp_result, pp_error >>

\* The token after `#` is an identifier spelled include.
IsInclude(token) ==
    token.kind = "Identifier" /\ token.payload = << "i", "n", "c", "l", "u",
       "d", "e" >>

\* A `#` that does not start an #include: an error at the end of the
\* tokens, otherwise the `#` and the token after it are skipped.
PPDirective ==
    /\ UNCHANGED << cgvars, lexvars, mainvars >>
    /\ AtToken
    /\ At(Top.tokens, Top.i).kind = "Hash"
    /\ Top.i + 1 < Len(Top.tokens) => ~IsInclude(At(Top.tokens, Top.i + 1))
    /\ IF Top.i + 1 >= Len(Top.tokens)
       THEN PPFail(PPErr(At(Top.tokens, Top.i).location,
                         "Unexpected end of file after #"))
       ELSE /\ frames' = [frames EXCEPT ![Len(frames)].i = @ + 2]
            /\ UNCHANGED << pp_input, pp_status, pp_result, pp_error >>

\* The activations that the model follows; the includer itself has no limit
MaxDepth == 6

\* The file that an activation works on
FrameFile(frame) == At(frame.tokens, 0).filename

\* An includer that refuses a file that it is working on already
PPIncludeOnce ==
    /\ UNCHANGED << cgvars, lexvars, mainvars >>
    /\ AtToken
    /\ At(Top.tokens, Top.i).kind = "Hash"
    /\ Top.i + 1 < Len(Top.tokens)
    /\ IsInclude(At(Top.tokens, Top.i + 1))
    /\ Len(frames) < MaxDepth
    /\ LET inc == IncludedTokens(Top.tokens, Top.i + 1)
       IN  IF ~inc.ok THEN PPFail(inc)
           ELSE IF \E k \in 1..Len(frames) : FrameFile(frames[k]) = At(inc.tokens, 0).filename
           THEN PPFail(PPErr(At(Top.tokens, Top.i).location, "Recursive include"))
           ELSE /\ frames' = Append([frames EXCEPT ![Len(frames)].i = inc.i],
                                    Frame(inc.tokens))
                /\ UNCHANGED << pp_input, pp_status, pp_result, pp_error >>

\* `# include`: process_include up to its call of preprocess, which is a
\* new activation on the tokens of the included file.
PPInclude ==
    /\ UNCHANGED << cgvars, lexvars, mainvars >>
    /\ AtToken
    /\ At(Top.tokens, Top.i).kind = "Hash"
    /\ Top.i + 1 < Len(Top.tokens)
    /\ IsInclude(At(Top.tokens, Top.i + 1))
    /\ Len(frames) < MaxDepth
    /\ LET inc == IncludedTokens(Top.tokens, Top.i + 1)
       IN  IF ~inc.ok THEN PPFail(inc)
           ELSE /\ frames' = Append([frames EXCEPT ![Len(frames)].i = inc.i],
                                    Frame(inc.tokens))
                /\ UNCHANGED << pp_input, pp_status, pp_result, pp_error >>

\* The loop of the innermost activation is over: preprocess returns its
\* result, to process_include (which extends the result of its caller and
\* steps over one more token) or to the caller of the includer.
PPReturn ==
    /\ UNCHANGED << cgvars, lexvars, mainvars >>
    /\ pp_status = "running"
    /\ Top.i >= Len(Top.tokens)
    /\ IF Len(frames) = 1
       THEN /\ pp_status' = "done"
            /\ pp_result' = Top.result
            /\ frames' = << >>
            /\ UNCHANGED << pp_input, pp_error >>
       ELSE /\ frames' = [SubSeq(frames, 1, Len(frames) - 1)
                             EXCEPT ![Len(frames) - 1] =
                                 [@ EXCEPT !.result = @ \o Top.result,
                                           !.i = @ + 1]]
            /\ UNCHANGED << pp_input, pp_status, pp_result, pp_error >>

(***************************************************************************)
(* The parser (src/src/parser.rs).  A Parser is the token slice and the    *)
(* index of `current` in it (past the end: current is None).  Every        *)
(* parsing function returns the parser afterwards and a node (or a type,   *)
(* a token, a list), or the syntax error of the first failing step, or     *)
(* the panic of an unwrap of None, which aborts the process.  Nodes carry  *)
(* the location the parser gives them.                                     *)
(***************************************************************************)
TStruct(name, members) ==
    [t |-> "Struct", of |-> << >>, size |-> << >>, name |-> name, members |-> members]

\* The String of a sequence of characters
RECURSIVE Str(_)
Str(chars) == IF chars = << >> THEN "" ELSE chars[1] \o Str(Tail(chars))

\* `size as usize` for the array sizes of the programs below (under 2^16)
AsUsize(w) == w[1] + 256 * w[2]

Located(node, loc) == node @@ [location |-> loc]

UnknownLocation == Location("unknown", 0, 0)

NewParser(tokens) == [tokens |-> tokens, pos |-> 1]

HasCurrent(p) == p.pos <= Len(p.tokens)
Current(p) == p.tokens[p.pos]

\* Parser::advance: Iter::next stays None once the slice is exhausted
ParserAdvance(p) == IF HasCurrent(p) THEN [p EXCEPT !.pos = @ + 1] ELSE p

\* A TokenKind value to compare with: the kind and, for an identifier, its name
Kind(kind) == [kind |-> kind, payload |-> << >>]

IsKind(token, k) == token.kind = k.kind /\ token.payload = k.payload

check(p, kind) == HasCurrent(p) /\ Current(p).kind = kind

POk(p, node) == [ok |-> TRUE, p |-> p, node |-> node]
PErr(loc, msg) == [ok |-> FALSE, panic |-> FALSE, location |-> loc, message |-> msg]
PPanic ==
    [ok |-> FALSE, panic |-> TRUE, location |-> UnknownLocation,
     message |-> "called Option::unwrap() on a None value"]

\* The value of the only element of a set: Only({e : x \in {v}}) is e with v
\* for x, and v is evaluated once.  The `?` of the source is
\*     Only({IF x.ok THEN e ELSE x : x \in {v}})
Only(S) == CHOOSE y \in S : TRUE

expect(p, k, message) ==
    IF ~HasCurrent(p) THEN PErr(UnknownLocation, message)
    ELSE IF IsKind(Current(p), k) THEN POk(ParserAdvance(p), Current(p))
    ELSE PErr(Current(p).location, message)

RECURSIVE parse_type(_), StructMembers(_, _, _), parse_expression(_),
          parse_statement(_), parse_declaration(_), parse_assignment(_),
          parse_unary(_)

\* parse_type: the trailing `*`s
RECURSIVE Pointers(_, _)
Pointers(p, type_) ==
    IF check(p, "Asterisk") THEN Pointers(ParserAdvance(p), TPointer(type_))
    ELSE POk(p, type_)

\* parse_type: `struct`, the optional name and the optional body
StructType(p) ==
    LET named == HasCurrent(p) /\ Current(p).kind = "Identifier"
        name == IF named THEN Str(Current(p).payload) ELSE ""
        p1 == IF named THEN ParserAdvance(p) ELSE p
    IN  IF check(p1, "LeftBrace") THEN StructMembers(ParserAdvance(p1), name, << >>)
        ELSE POk(p1, TStruct(name, << >>))

StructMembers(p, name, members) ==
    IF ~check(p, "RightBrace") /\ HasCurrent(p)
    THEN Only({IF t.ok THEN
         Only({IF n.ok THEN
         Only({IF s.ok THEN
         StructMembers(s.p, name,
                       Append(members, Param(Str(n.node.payload), t.node)))
        ELSE s : s \in {expect(n.p, Kind("Semicolon"), "Expected ';' after struct member")}})
        ELSE n : n \in {expect(t.p, Kind("Identifier"), "Expected member name")}})
        ELSE t : t \in {parse_type(p)}})
    ELSE Only({IF r.ok THEN POk(r.p, TStruct(name, members)) ELSE r : r \in {expect(p, Kind("RightBrace"), "Expected '}' after struct body")}})

parse_type(p) ==
    Only({IF base.ok THEN Pointers(base.p, base.node) ELSE base : base \in {IF check(p, "Void") THEN POk(ParserAdvance(p), TVoid)
          ELSE IF check(p, "Char") THEN POk(ParserAdvance(p), TChar)
          ELSE IF check(p, "Int") THEN POk(ParserAdvance(p), TInt)
          ELSE IF check(p, "Long") THEN POk(ParserAdvance(p), TLong)
          ELSE IF check(p, "Struct") THEN StructType(ParserAdvance(p))
          ELSE IF ~HasCurrent(p) THEN PPanic ELSE Only({PErr(loc, "Expected type specifier") : loc \in {Current(p).location}})}})

parse_variable_declaration(p0, name, type_, location_) ==
    LET Rest(p, var_type) ==
            Only({IF init.ok THEN
            Only({IF s.ok THEN
            POk(s.p, Located(VarDecl(name, var_type, init.node), location_)) ELSE s : s \in {expect(init.p, Kind("Semicolon"),
                         "Expected ';' after variable declaration")}})
        ELSE init : init \in {IF check(p, "Assign")
                  THEN Only({IF e.ok THEN POk(e.p, << e.node >>) ELSE e : e \in {parse_expression(ParserAdvance(p))}})
                  ELSE POk(p, << >>)}})
        p1 == ParserAdvance(p0)
        sized == HasCurrent(p1) /\ Current(p1).kind = "IntLiteral"
    IN  IF check(p0, "LeftBracket")
        THEN Only({IF b.ok THEN
                   Rest(b.p, IF sized THEN TArray(type_, AsUsize(Current(p1).payload))
                             ELSE TArrayUnsized(type_))
        ELSE b : b \in {expect(IF sized THEN ParserAdvance(p1) ELSE p1,
                          Kind("RightBracket"), "Expected ']' after array size")}})
        ELSE Rest(p0, type_)

\* parse_function_declaration: the loop over the parameters
RECURSIVE ParamLoop(_, _)
ParamLoop(p, params) ==
    Only({IF t.ok THEN
        IF ~HasCurrent(t.p) THEN PErr(UnknownLocation, "Unexpected end of file")
        ELSE IF Current(t.p).kind # "Identifier"
        THEN PErr(Current(t.p).location, "Expected parameter name")
        ELSE LET params1 == Append(params, Param(Str(Current(t.p).payload), t.node))
                 p1 == ParserAdvance(t.p)
             IN  IF ~check(p1, "Comma") THEN POk(p1, params1)
                 ELSE IF check(ParserAdvance(p1), "Ellipsis")
                 THEN POk(ParserAdvance(ParserAdvance(p1)),
                          Append(params1, Param("...", TVoid)))
                 ELSE ParamLoop(ParserAdvance(p1), params1)
        ELSE t : t \in {parse_type(p)}})

RECURSIVE parse_block(_)

parse_function_declaration(p0, name, return_type, location_) ==
    Only({IF l.ok THEN
    Only({IF params.ok THEN
    Only({IF r.ok THEN
    Only({IF body.ok THEN
    POk(body.p, Located(FunctionDecl(name, return_type, params.node, body.node),
                        location_))
        ELSE body : body \in {IF check(r.p, "LeftBrace")
          THEN Only({IF b.ok THEN POk(b.p, << b.node >>) ELSE b : b \in {parse_block(r.p)}})
          ELSE Only({IF s.ok THEN POk(s.p, << >>) ELSE s : s \in {expect(r.p, Kind("Semicolon"),
                            "Expected ';' after function declaration")}})}})
        ELSE r : r \in {expect(params.p, Kind("RightParen"), "Expected ')' after parameters")}})
        ELSE params : params \in {IF check(l.p, "RightParen") THEN POk(l.p, << >>) ELSE ParamLoop(l.p, << >>)}})
        ELSE l : l \in {expect(p0, Kind("LeftParen"), "Expected '(' after function name")}})

\* parse_declaration after the type: the identifier, then a function or a
\* variable declaration
DeclarationAfterType(p, type_) ==
    IF ~HasCurrent(p) THEN PErr(UnknownLocation, "Unexpected end of file")
    ELSE IF Current(p).kind # "Identifier"
    THEN PErr(Current(p).location, "Expected identifier")
    ELSE IF check(ParserAdvance(p), "LeftParen")
    THEN parse_function_declaration(ParserAdvance(p), Str(Current(p).payload),
                                    type_, Current(p).location)
    ELSE parse_variable_declaration(ParserAdvance(p), Str(Current(p).payload),
                                    type_, Current(p).location)

\* The type names that parse_declaration accepts as identifiers
TypeNames ==
    [int |-> TInt, char |-> TChar, void |-> TVoid, long |-> TLong]

parse_declaration(p) ==
    IF \E k \in {"Int", "Char", "Void", "Long", "Struct"} : check(p, k)
    THEN Only({IF t.ok THEN DeclarationAfterType(t.p, t.node) ELSE t : t \in {parse_type(p)}})
    ELSE IF ~HasCurrent(p) THEN PErr(UnknownLocation, "Expected declaration")
    ELSE IF /\ Current(p).kind = "Identifier"
            /\ Str(Current(p).payload) \in DOMAIN TypeNames
    THEN DeclarationAfterType(ParserAdvance(p), TypeNames[Str(Current(p).payload)])
    ELSE PErr(Current(p).location, "Expected declaration")

\* parse_block: the loop over the statements
RECURSIVE Statements(_, _)
Statements(p, statements) ==
    IF ~check(p, "RightBrace") /\ HasCurrent(p)
    THEN Only({IF s.ok THEN Statements(s.p, Append(statements, s.node)) ELSE s : s \in {parse_statement(p)}})
    ELSE POk(p, statements)

parse_block(p) ==
    IF ~HasCurrent(p) THEN PPanic ELSE Only({
    Only({IF l.ok THEN
    Only({IF body.ok THEN
    Only({IF r.ok THEN
    POk(r.p, Located(BlockStmt(body.node), location_)) ELSE r : r \in {expect(body.p, Kind("RightBrace"), "Expected '}'")}})
        ELSE body : body \in {Statements(l.p, << >>)}})
        ELSE l : l \in {expect(p, Kind("LeftBrace"), "Expected '{'")}}) : location_ \in {Current(p).location}})

\* `(` condition `)` of an if or a while statement
Condition(p, keyword) ==
    Only({IF l.ok THEN
    Only({IF c.ok THEN
    Only({IF r.ok THEN POk(r.p, c.node) ELSE r : r \in {expect(c.p, Kind("RightParen"), "Expected ')' after condition")}}) ELSE c : c \in {parse_expression(l.p)}})
        ELSE l : l \in {expect(p, Kind("LeftParen"), "Expected '(' after '" \o keyword \o "'")}})

parse_if_statement(p) ==
    IF ~HasCurrent(p) THEN PPanic ELSE Only({
    Only({IF c.ok THEN
    Only({IF t.ok THEN
    Only({IF e.ok THEN
    POk(e.p, Located(IfStmt(c.node, t.node, e.node), location_)) ELSE e : e \in {IF check(t.p, "Else")
          THEN Only({IF e.ok THEN POk(e.p, << e.node >>) ELSE e : e \in {parse_statement(ParserAdvance(t.p))}})
          ELSE POk(t.p, << >>)}})
        ELSE t : t \in {parse_statement(c.p)}})
        ELSE c : c \in {Condition(ParserAdvance(p), "if")}}) : location_ \in {Current(p).location}})

parse_while_statement(p) ==
    IF ~HasCurrent(p) THEN PPanic ELSE Only({
    Only({IF c.ok THEN
    Only({IF b.ok THEN
    POk(b.p, Located(WhileStmt(c.node, b.node), location_)) ELSE b : b \in {parse_statement(c.p)}})
        ELSE c : c \in {Condition(ParserAdvance(p), "while")}}) : location_ \in {Current(p).location}})

\* An optional expression of a for or return statement: nothing before the
\* closing token, or an expression and then the closing token
OptionalExpression(p, closing, message) ==
    IF check(p, closing) THEN POk(ParserAdvance(p), << >>)
    ELSE Only({IF e.ok THEN
         Only({IF c.ok THEN
         POk(c.p, << e.node >>) ELSE c : c \in {expect(e.p, Kind(closing), message)}})
        ELSE e : e \in {parse_expression(p)}})

parse_for_statement(p) ==
    IF ~HasCurrent(p) THEN PPanic ELSE Only({
    Only({IF l.ok THEN
    Only({IF init.ok THEN
    Only({IF condition.ok THEN
    Only({IF increment.ok THEN
    Only({IF body.ok THEN
    POk(body.p, Located(ForStmt(init.node, condition.node, increment.node,
                                body.node), location_))
        ELSE body : body \in {parse_statement(increment.p)}})
        ELSE increment : increment \in {OptionalExpression(condition.p, "RightParen",
                             "Expected ')' after for increment")}})
        ELSE condition : condition \in {OptionalExpression(init.p, "Semicolon", "Expected ';' after for condition")}})
        ELSE init : init \in {OptionalExpression(l.p, "Semicolon", "Expected ';' after for initializer")}})
        ELSE l : l \in {expect(ParserAdvance(p), Kind("LeftParen"), "Expected '(' after 'for'")}}) : location_ \in {Current(p).location}})

parse_return_statement(p) ==
    IF ~HasCurrent(p) THEN PPanic ELSE Only({
    Only({IF value.ok THEN
    POk(value.p, Located(ReturnStmt(value.node), location_)) ELSE value : value \in {OptionalExpression(ParserAdvance(p), "Semicolon",
                             "Expected ';' after return value")}}) : location_ \in {Current(p).location}})

parse_statement(p) ==
    IF ~HasCurrent(p) THEN PErr(UnknownLocation, "Unexpected end of file")
    ELSE CASE Current(p).kind = "If" -> parse_if_statement(p)
           [] Current(p).kind = "While" -> parse_while_statement(p)
           [] Current(p).kind = "For" -> parse_for_statement(p)
           [] Current(p).kind = "Return" -> parse_return_statement(p)
           [] Current(p).kind = "LeftBrace" -> parse_block(p)
           [] Current(p).kind \in {"Int", "Char", "Void", "Long", "Struct"} ->
                parse_declaration(p)
           [] Current(p).kind = "Semicolon" ->
                POk(ParserAdvance(p),
                    ExpressionStmt(Located(IntLiteral(Zero64), Current(p).location)))
           [] OTHER ->
                Only({IF e.ok THEN
                Only({IF s.ok THEN POk(s.p, ExpressionStmt(e.node)) ELSE s : s \in {expect(e.p, Kind("Semicolon"), "Expected ';' after expression")}}) ELSE e : e \in {parse_expression(p)}})

parse_primary(p) ==
    IF ~HasCurrent(p) THEN PErr(UnknownLocation, "Unexpected end of file")
    ELSE LET token == Current(p)
             location_ == token.location
         IN  CASE token.kind = "IntLiteral" ->
                    POk(ParserAdvance(p), Located(IntLiteral(token.payload), location_))
               [] token.kind = "CharLiteral" ->
                    POk(ParserAdvance(p), Located(CharLiteral(token.payload), location_))
               [] token.kind = "StringLiteral" ->
                    POk(ParserAdvance(p),
                        Located(StringLiteral(token.payload), location_))
               [] token.kind = "Identifier" ->
                    POk(ParserAdvance(p),
                        Located(Identifier(Str(token.payload)), location_))
               [] token.kind = "LeftParen" ->
                    Only({IF e.ok THEN
                    Only({IF r.ok THEN POk(r.p, e.node) ELSE r : r \in {expect(e.p, Kind("RightParen"),
                                 "Expected ')' after expression")}})
        ELSE e : e \in {parse_expression(ParserAdvance(p))}})
               [] OTHER -> PErr(location_, "Unexpected token")

\* parse_postfix: the loop over the arguments of a call
RECURSIVE Arguments(_, _)
Arguments(p, args) ==
    Only({IF a.ok THEN
        IF check(a.p, "Comma")
        THEN Arguments(ParserAdvance(a.p), Append(args, a.node))
        ELSE POk(a.p, Append(args, a.node))
        ELSE a : a \in {parse_expression(p)}})

\* parse_postfix: `.` or `->`, the member name, and the error that follows
MemberAccess(p, message, unimplemented) ==
    IF ~HasCurrent(p) THEN PPanic ELSE Only({
    Only({IF m.ok THEN
    PErr(location_, unimplemented) ELSE m : m \in {expect(p, Kind("Identifier"), message)}}) : location_ \in {Current(p).location}})

\* parse_postfix: the loop over the postfix operators
\* An index that is added with the operands the other way round (the
\* mutation of the desugaring).
ArrayAccessReversed(expr, index, location_) ==
    Located(UnaryExpr("Dereference",
                      Located(BinaryExpr("Add", index, expr), location_)),
            location_)

\* Array access is equivalent to *(array + index)
ArrayAccess(expr, index, location_) ==
    Located(UnaryExpr("Dereference",
                      Located(BinaryExpr("Add", expr, index), location_)),
            location_)

RECURSIVE PostfixLoop(_, _)
PostfixLoop(p, expr) ==
    IF check(p, "LeftParen")
    THEN IF ~HasCurrent(ParserAdvance(p)) THEN PPanic ELSE Only({
         Only({IF args.ok THEN
         Only({IF r.ok THEN
         IF expr.kind = "Identifier"
         THEN PostfixLoop(r.p, Located(FunctionCall(expr.name, args.node), location_))
         ELSE PErr(location_, "Expected function name before '('")
        ELSE r : r \in {expect(args.p, Kind("RightParen"), "Expected ')' after arguments")}})
        ELSE args : args \in {IF check(ParserAdvance(p), "RightParen")
               THEN POk(ParserAdvance(p), << >>)
               ELSE Arguments(ParserAdvance(p), << >>)}}) : location_ \in {Current(ParserAdvance(p)).location}})
    ELSE IF check(p, "LeftBracket")
    THEN IF ~HasCurrent(ParserAdvance(p)) THEN PPanic ELSE Only({
         Only({IF index.ok THEN
         Only({IF r.ok THEN
         PostfixLoop(r.p, ArrayAccess(expr, index.node, location_))
        ELSE r : r \in {expect(index.p, Kind("RightBracket"), "Expected ']' after index")}})
        ELSE index : index \in {parse_expression(ParserAdvance(p))}}) : location_ \in {Current(ParserAdvance(p)).location}})
    ELSE IF check(p, "Dot")
    THEN MemberAccess(ParserAdvance(p), "Expected member name after '.'",
                      "Struct member access not implemented yet")
    ELSE IF check(p, "Arrow")
    THEN MemberAccess(ParserAdvance(p), "Expected member name after '->'",
                      "Struct pointer member access not implemented yet")
    ELSE POk(p, expr)

parse_postfix(p) == Only({IF e.ok THEN PostfixLoop(e.p, e.node) ELSE e : e \in {parse_primary(p)}})

\* The prefix operator a token kind stands for
UnaryOps ==
    [Minus |-> "Negate", LogicalNot |-> "LogicalNot", BitwiseNot |-> "BitwiseNot",
     Asterisk |-> "Dereference", BitwiseAnd |-> "AddressOf"]

parse_unary(p) ==
    IF HasCurrent(p) /\ Current(p).kind \in DOMAIN UnaryOps
    THEN Only({IF e.ok THEN
               POk(e.p, Located(UnaryExpr(UnaryOps[Current(p).kind], e.node),
                                Current(p).location))
        ELSE e : e \in {parse_unary(ParserAdvance(p))}})
    ELSE parse_postfix(p)

\* The loop of a left-associative level: after an operator of the level,
\* the location of the token that follows it, the operand, and the node
MultiplicativeOps == [Asterisk |-> "Multiply", Slash |-> "Divide", Percent |-> "Modulo"]
AdditiveOps == [Plus |-> "Add", Minus |-> "Subtract"]
RelationalOps ==
    [LessThan |-> "Less", LessThanEqual |-> "LessEqual", GreaterThan |-> "Greater",
     GreaterThanEqual |-> "GreaterEqual"]
EqualityOps == [Equal |-> "Equal", NotEqual |-> "NotEqual"]
LogicalAndOps == [LogicalAnd |-> "LogicalAnd"]
LogicalOrOps == [LogicalOr |-> "LogicalOr"]

\* The loop of a level, `let mut expr = operand()?; while match_token(op) {
\* location; right = operand()?; expr = BinaryExpr(expr, op, right) }`, is
\* two operators: XOperand parses one operand and folds it into the pending
\* operation (none for the first operand), XLoop looks for the next operator.
Pending(op, left, location_) == << [op |-> op, left |-> left, location |-> location_] >>

Fold(pending, right) ==
    IF pending = << >> THEN right
    ELSE Located(BinaryExpr(pending[1].op, pending[1].left, right),
                 pending[1].location)

Matches(p, ops) == HasCurrent(p) /\ Current(p).kind \in DOMAIN ops

\* match_token(op) and self.current.unwrap().location: the operation that
\* waits for its right operand
NextOperation(p, ops, expr) ==
    Pending(ops[Current(p).kind], expr, Current(ParserAdvance(p)).location)

\* A level of `* / %` that parses no operator (the mutation that leaves
\* the level out).
parse_multiplicative_skipped(p) == parse_unary(p)

RECURSIVE MultiplicativeOperand(_, _), MultiplicativeLoop(_, _)
MultiplicativeOperand(p, pending) ==
    Only({IF right.ok THEN MultiplicativeLoop(right.p, Fold(pending, right.node))
          ELSE right : right \in {parse_unary(p)}})

MultiplicativeLoop(p, expr) ==
    IF ~Matches(p, MultiplicativeOps) THEN POk(p, expr)
    ELSE IF ~HasCurrent(ParserAdvance(p)) THEN PPanic
    ELSE MultiplicativeOperand(ParserAdvance(p), NextOperation(p, MultiplicativeOps, expr))

parse_multiplicative(p) == MultiplicativeOperand(p, << >>)

RECURSIVE AdditiveOperand(_, _), AdditiveLoop(_, _)
AdditiveOperand(p, pending) ==
    Only({IF right.ok THEN AdditiveLoop(right.p, Fold(pending, right.node))
          ELSE right : right \in {parse_multiplicative(p)}})

AdditiveLoop(p, expr) ==
    IF ~Matches(p, AdditiveOps) THEN POk(p, expr)
    ELSE IF ~HasCurrent(ParserAdvance(p)) THEN PPanic
    ELSE AdditiveOperand(ParserAdvance(p), NextOperation(p, AdditiveOps, expr))

parse_additive(p) == AdditiveOperand(p, << >>)

RECURSIVE RelationalOperand(_, _), RelationalLoop(_, _)
RelationalOperand(p, pending) ==
    Only({IF right.ok THEN RelationalLoop(right.p, Fold(pending, right.node))
          ELSE right : right \in {parse_additive(p)}})

RelationalLoop(p, expr) ==
    IF ~Matches(p, RelationalOps) THEN POk(p, expr)
    ELSE IF ~HasCurrent(ParserAdvance(p)) THEN PPanic
    ELSE RelationalOperand(ParserAdvance(p), NextOperation(p, RelationalOps, expr))

parse_relational(p) == RelationalOperand(p, << >>)

RECURSIVE EqualityOperand(_, _), EqualityLoop(_, _)
EqualityOperand(p, pending) ==
    Only({IF right.ok THEN EqualityLoop(right.p, Fold(pending, right.node))
          ELSE right : right \in {parse_relational(p)}})

EqualityLoop(p, expr) ==
    IF ~Matches(p, EqualityOps) THEN POk(p, expr)
    ELSE IF ~HasCurrent(ParserAdvance(p)) THEN PPanic
    ELSE EqualityOperand(ParserAdvance(p), NextOperation(p, EqualityOps, expr))

parse_equality(p) == EqualityOperand(p, << >>)

RECURSIVE LogicalAndOperand(_, _), LogicalAndLoop(_, _)
LogicalAndOperand(p, pending) ==
    Only({IF right.ok THEN LogicalAndLoop(right.p, Fold(pending, right.node))
          ELSE right : right \in {parse_equality(p)}})

LogicalAndLoop(p, expr) ==
    IF ~Matches(p, LogicalAndOps) THEN POk(p, expr)
    ELSE IF ~HasCurrent(ParserAdvance(p)) THEN PPanic
    ELSE LogicalAndOperand(ParserAdvance(p), NextOperation(p, LogicalAndOps, expr))

parse_logical_and(p) == LogicalAndOperand(p, << >>)

RECURSIVE LogicalOrOperand(_, _), LogicalOrLoop(_, _)
LogicalOrOperand(p, pending) ==
    Only({IF right.ok THEN LogicalOrLoop(right.p, Fold(pending, right.node))
          ELSE right : right \in {parse_logical_and(p)}})

LogicalOrLoop(p, expr) ==
    IF ~Matches(p, LogicalOrOps) THEN POk(p, expr)
    ELSE IF ~HasCurrent(ParserAdvance(p)) THEN PPanic
    ELSE LogicalOrOperand(ParserAdvance(p), NextOperation(p, LogicalOrOps, expr))

parse_logical_or(p) == LogicalOrOperand(p, << >>)

parse_assignment(p) ==
    Only({IF e.ok THEN
        IF ~check(e.p, "Assign") THEN e
        ELSE IF ~HasCurrent(ParserAdvance(e.p)) THEN PPanic ELSE Only({
             Only({IF value.ok THEN
             POk(value.p, Located(BinaryExpr("Assign", e.node, value.node),
                                  location_))
        ELSE value : value \in {parse_assignment(ParserAdvance(e.p))}}) : location_ \in {Current(ParserAdvance(e.p)).location}})
        ELSE e : e \in {parse_logical_or(p)}})

parse_expression(p) == parse_assignment(p)

\* parse_program: the loop over the declarations
RECURSIVE Declarations(_, _)
Declarations(p, declarations) ==
    IF HasCurrent(p) /\ ~check(p, "Eof")
    THEN Only({IF d.ok THEN Declarations(d.p, Append(declarations, d.node)) ELSE d : d \in {parse_declaration(p)}})
    ELSE POk(p, Program(declarations))

parse_program(p) == Declarations(p, << >>)

(***************************************************************************)
(* The type checker (src/src/typechecker.rs).  A scope is a function from  *)
(* names to types; a TypeChecker is the stack of scopes of its symbol      *)
(* table and current_function_return_type (a sequence of length 0 or 1).   *)
(* check_node returns the checker afterwards and the type of the node, or  *)
(* the type error of the first failing step.                               *)
(***************************************************************************)
EmptyScope == [name \in {} |-> TVoid]

Insert(scope, name, type_) ==
    [n \in DOMAIN scope \cup {name} |-> IF n = name THEN type_ ELSE scope[n]]

NewSymbolTable == << EmptyScope >>

NewTypeChecker ==
    [scopes |-> NewSymbolTable, current_function_return_type |-> << >>]

enter_scope(tc) == [tc EXCEPT !.scopes = Append(@, EmptyScope)]

\* a scope that is never popped
exit_scope_kept(tc) == tc

exit_scope(tc) ==
    IF tc.scopes = << >> THEN tc
    ELSE [tc EXCEPT !.scopes = SubSeq(@, 1, Len(@) - 1)]

define(tc, name, type_) ==
    IF tc.scopes = << >> THEN tc
    ELSE [tc EXCEPT !.scopes[Len(tc.scopes)] = Insert(@, name, type_)]

\* lookup from scope k outwards: the type, as a sequence of length 0 or 1
RECURSIVE LookupFrom(_, _, _)
LookupFrom(scopes, k, name) ==
    IF k = 0 THEN << >>
    ELSE IF name \in DOMAIN scopes[k] THEN << scopes[k][name] >>
    ELSE LookupFrom(scopes, k - 1, name)

lookup(tc, name) == LookupFrom(tc.scopes, Len(tc.scopes), name)

RECURSIVE is_compatible(_, _)
is_compatible(left, right) ==
    LET Integers_ == {"Char", "Int", "Long"}
        References == {"Pointer", "Array"}
    IN  CASE left.t = "Void" /\ right.t = "Void" -> TRUE
          [] left.t \in Integers_ /\ right.t \in Integers_ -> TRUE
          [] left.t \in References /\ right.t \in References ->
                is_compatible(left.of[1], right.of[1])
          [] left.t = "Function" /\ right.t = "Function" ->
                /\ is_compatible(left.of[1], right.of[1])
                /\ Len(left.params) = Len(right.params)
                /\ left.variadic = right.variadic
                /\ \A i \in 1..Len(left.params) :
                      is_compatible(left.params[i], right.params[i])
          [] OTHER -> FALSE

is_integer_type(type_) == type_.t \in {"Char", "Int", "Long"}

is_pointer_type(type_) == type_.t \in {"Pointer", "Array"}

TOk(tc, type_) == [ok |-> TRUE, tc |-> tc, type |-> type_]
TErr(loc, msg) == [ok |-> FALSE, location |-> loc, message |-> msg]

\* The type of an operation on two integers
Wider(left_type, right_type) ==
    IF left_type.t = "Long" \/ right_type.t = "Long" THEN TLong ELSE TInt

\* The relational operators: both operands integers or both pointers
RelationalOperands(left_type, right_type) ==
    \/ is_integer_type(left_type) /\ is_integer_type(right_type)
    \/ is_pointer_type(left_type) /\ is_pointer_type(right_type)

\* check_node for a binary expression whose operands have been checked
BinaryType(tc, op, left_type, right_type, location_) ==
    LET ints == is_integer_type(left_type) /\ is_integer_type(right_type)
    IN  CASE op = "Add" ->
               IF ints THEN TOk(tc, Wider(left_type, right_type))
               ELSE IF is_pointer_type(left_type) /\ is_integer_type(right_type)
               THEN TOk(tc, left_type)
               ELSE IF is_integer_type(left_type) /\ is_pointer_type(right_type)
               THEN TOk(tc, right_type)
               ELSE TErr(location_, "Invalid operands for addition")
          [] op = "Subtract" ->
               IF ints THEN TOk(tc, Wider(left_type, right_type))
               ELSE IF is_pointer_type(left_type) /\ is_integer_type(right_type)
               THEN TOk(tc, left_type)
               ELSE IF is_pointer_type(left_type) /\ is_pointer_type(right_type)
               THEN TOk(tc, TInt)
               ELSE TErr(location_, "Invalid operands for subtraction")
          [] op \in {"Multiply", "Divide", "Modulo"} ->
               IF ints THEN TOk(tc, Wider(left_type, right_type))
               ELSE TErr(location_, "Invalid operands for arithmetic operation")
          [] op \in {"Equal", "NotEqual"} ->
               IF is_compatible(left_type, right_type) THEN TOk(tc, TInt)
               ELSE TErr(location_, "Invalid operands for comparison")
          [] op \in {"Less", "LessEqual", "Greater", "GreaterEqual"} ->
               IF RelationalOperands(left_type, right_type) THEN TOk(tc, TInt)
               ELSE TErr(location_, "Invalid operands for comparison")
          [] op \in {"LogicalAnd", "LogicalOr"} -> TOk(tc, TInt)
          [] op \in {"BitwiseAnd", "BitwiseOr", "BitwiseXor", "ShiftLeft",
                     "ShiftRight"} ->
               IF ints THEN TOk(tc, Wider(left_type, right_type))
               ELSE TErr(location_, "Invalid operands for bitwise operation")
          [] op = "Assign" ->
               IF is_compatible(left_type, right_type) THEN TOk(tc, left_type)
               ELSE TErr(location_, "Cannot assign value")

\* check_node for a unary expression whose operand has been checked
UnaryType(tc, op, expr_type, location_) ==
    CASE op = "Negate" ->
           IF is_integer_type(expr_type) THEN TOk(tc, expr_type)
           ELSE TErr(location_, "Cannot negate non-integer type")
      [] op = "LogicalNot" -> TOk(tc, TInt)
      [] op = "BitwiseNot" ->
           IF is_integer_type(expr_type) THEN TOk(tc, expr_type)
           ELSE TErr(location_, "Cannot apply bitwise not to non-integer type")
      [] op = "Dereference" ->
           IF is_pointer_type(expr_type) THEN TOk(tc, expr_type.of[1])
           ELSE TErr(location_, "Cannot dereference non-pointer type")
      [] op = "AddressOf" -> TOk(tc, TPointer(expr_type))

\* The number of arguments is never tested (the mutation of the test below).
WrongArgumentCountNever(is_variadic, args, param_types) == FALSE

\* A call of a function that is not variadic with another number of
\* arguments than it has parameters
WrongArgumentCount(is_variadic, args, param_types) ==
    ~is_variadic /\ Len(args) # Len(param_types)

\* No argument is checked (the mutation of the count below).
CheckCountNone(param_types, args) == 0

\* The number of leading arguments that a call checks
CheckCount(param_types, args) ==
    IF Len(param_types) <= Len(args) THEN Len(param_types) ELSE Len(args)

RECURSIVE check_node(_, _)

\* FunctionCall: the loop over the arguments at indices i .. check_count - 1
RECURSIVE CheckArguments(_, _, _, _, _)
CheckArguments(tc, args, param_types, i, location_) ==
    IF i >= CheckCount(param_types, args) THEN TOk(tc, TVoid)
    ELSE Only({IF arg.ok THEN
             IF ~is_compatible(arg.type, param_types[i + 1])
             THEN TErr(location_, "Argument has another type than the function expects")
             ELSE CheckArguments(arg.tc, args, param_types, i + 1, location_)
        ELSE arg : arg \in {check_node(tc, args[i + 1])}})

\* BlockStmt: the loop over the statements
RECURSIVE CheckStatements(_, _, _)
CheckStatements(tc, statements, i) ==
    IF i > Len(statements) THEN TOk(tc, TVoid)
    ELSE Only({IF s.ok THEN CheckStatements(s.tc, statements, i + 1) ELSE s : s \in {check_node(tc, statements[i])}})

\* A node that may be absent (Option<Box<Node>>)
CheckOptional(tc, option) ==
    IF option = << >> THEN TOk(tc, TVoid) ELSE check_node(tc, option[1])

\* check_node in the scope of the statement around it
CheckUnscoped(tc, node) == check_node(tc, node)

\* check_node in a scope of its own
CheckScoped(tc, node) ==
    Only({IF r.ok THEN TOk(exit_scope(r.tc), TVoid) ELSE r : r \in {check_node(enter_scope(tc), node)}})

\* FunctionDecl: the parameters are defined in the scope of the body
RECURSIVE DefineParams(_, _, _)
DefineParams(tc, params, i) ==
    IF i > Len(params) THEN tc
    ELSE DefineParams(define(tc, params[i].name, params[i].type_), params, i + 1)

check_node(tc, node) ==
    CASE node.kind = "IntLiteral" -> TOk(tc, TInt)
      [] node.kind = "CharLiteral" -> TOk(tc, TChar)
      [] node.kind = "StringLiteral" -> TOk(tc, TPointer(TChar))
      [] node.kind = "Identifier" ->
           IF lookup(tc, node.name) # << >> THEN TOk(tc, lookup(tc, node.name)[1])
           ELSE TErr(node.location, "Undefined variable")
      [] node.kind = "BinaryExpr" ->
           Only({IF l.ok THEN
           Only({IF r.ok THEN
           BinaryType(r.tc, node.op, l.type, r.type, node.location) ELSE r : r \in {check_node(l.tc, node.right)}})
        ELSE l : l \in {check_node(tc, node.left)}})
      [] node.kind = "UnaryExpr" ->
           Only({IF e.ok THEN
           UnaryType(e.tc, node.op, e.type, node.location) ELSE e : e \in {check_node(tc, node.expr)}})
      [] node.kind = "FunctionCall" ->
           LET func_type == lookup(tc, node.name)
           IN  IF func_type = << >> THEN TErr(node.location, "Undefined function")
               ELSE IF func_type[1].t # "Function"
               THEN TErr(node.location, "Not a function")
               ELSE IF WrongArgumentCount(func_type[1].variadic, node.args,
                                          func_type[1].params)
               THEN TErr(node.location, "Wrong number of arguments")
               ELSE Only({IF a.ok THEN TOk(a.tc, func_type[1].of[1]) ELSE a : a \in {CheckArguments(tc, node.args, func_type[1].params, 0,
                                         node.location)}})
      [] node.kind = "ExpressionStmt" ->
           Only({IF e.ok THEN TOk(e.tc, TVoid) ELSE e : e \in {check_node(tc, node.expr)}})
      [] node.kind = "ReturnStmt" ->
           IF tc.current_function_return_type = << >>
           THEN TErr(node.location, "Return statement outside of function")
           ELSE IF node.value = << >>
           THEN IF tc.current_function_return_type[1].t = "Void" THEN TOk(tc, TVoid)
                ELSE TErr(node.location, "Cannot return void")
           ELSE Only({IF e.ok THEN
                    IF is_compatible(e.type, tc.current_function_return_type[1])
                    THEN TOk(e.tc, TVoid)
                    ELSE TErr(node.location, "Cannot return value")
        ELSE e : e \in {check_node(tc, node.value[1])}})
      [] node.kind = "IfStmt" ->
           Only({IF c.ok THEN
           Only({IF t.ok THEN
           IF node.else_branch = << >> THEN TOk(t.tc, TVoid)
           ELSE CheckScoped(t.tc, node.else_branch[1])
        ELSE t : t \in {CheckScoped(c.tc, node.then_branch)}})
        ELSE c : c \in {check_node(tc, node.condition)}})
      [] node.kind = "WhileStmt" ->
           Only({IF c.ok THEN
           CheckScoped(c.tc, node.body) ELSE c : c \in {check_node(tc, node.condition)}})
      [] node.kind = "ForStmt" ->
           Only({IF init.ok THEN
           Only({IF condition.ok THEN
           Only({IF increment.ok THEN
           Only({IF body.ok THEN
           TOk(exit_scope(body.tc), TVoid) ELSE body : body \in {check_node(increment.tc, node.body)}})
        ELSE increment : increment \in {CheckOptional(condition.tc, node.increment)}})
        ELSE condition : condition \in {CheckOptional(init.tc, node.condition)}})
        ELSE init : init \in {CheckOptional(enter_scope(tc), node.init)}})
      [] node.kind = "BlockStmt" ->
           Only({IF s.ok THEN TOk(exit_scope(s.tc), TVoid) ELSE s : s \in {CheckStatements(enter_scope(tc), node.statements, 1)}})
      [] node.kind = "VarDecl" ->
           Only({IF init.ok THEN
               IF node.initializer # << >> /\ ~is_compatible(init.type, node.type_)
               THEN TErr(node.location, "Cannot initialize variable")
               ELSE TOk(define(init.tc, node.name, node.type_), TVoid)
        ELSE init : init \in {CheckOptional(tc, node.initializer)}})
      [] node.kind = "FunctionDecl" ->
           LET func_type == TFunction(node.return_type,
                                      StripEllipsis(node.params, 1),
                                      \E i \in 1..Len(node.params) :
                                          node.params[i].name = "...")
               declared == define(tc, node.name, func_type)
               inside == [declared EXCEPT
                             !.current_function_return_type = << node.return_type >>]
           IN  IF node.body = << >> THEN TOk(declared, TVoid)
               ELSE Only({IF b.ok THEN
                          TOk([exit_scope(b.tc) EXCEPT
                                  !.current_function_return_type =
                                      declared.current_function_return_type],
                              TVoid)
        ELSE b : b \in {check_node(DefineParams(enter_scope(inside), node.params, 1),
                                     node.body[1])}})

\* check_program: the loop over the declarations
RECURSIVE CheckDeclarations(_, _, _)
CheckDeclarations(tc, declarations, i) ==
    IF i > Len(declarations) THEN TOk(tc, TVoid)
    ELSE Only({IF d.ok THEN CheckDeclarations(d.tc, declarations, i + 1) ELSE d : d \in {check_node(tc, declarations[i])}})

check_program(tc, tree) == CheckDeclarations(tc, tree.declarations, 1)

(***************************************************************************)
(* The passes of main (src/src/main.rs) on one translation unit, main.c:   *)
(* tokenize, preprocess, parse, type check, generate.  An error of a pass  *)
(* ends the run; a panic of the parser aborts it.                          *)
(***************************************************************************)
\* Preprocessor::preprocess as a function of the token vector: the loop
\* from index i on, with the result so far.
RECURSIVE preprocess(_), PreprocessFrom(_, _, _)
PreprocessFrom(tokens, i, result) ==
    IF i >= Len(tokens) THEN [ok |-> TRUE, tokens |-> result]
    ELSE IF At(tokens, i).kind # "Hash"
    THEN PreprocessFrom(tokens, i + 1, Append(result, At(tokens, i)))
    ELSE IF i + 1 >= Len(tokens)
    THEN PPErr(At(tokens, i).location, "Unexpected end of file after #")
    ELSE IF ~IsInclude(At(tokens, i + 1))
    THEN PreprocessFrom(tokens, i + 2, result)
    ELSE Only({IF inc.ok THEN
         Only({IF included.ok THEN
         PreprocessFrom(tokens, inc.i + 1, result \o included.tokens) ELSE included : included \in {preprocess(inc.tokens)}})
        ELSE inc : inc \in {IncludedTokens(tokens, i + 1)}})

preprocess(tokens) == PreprocessFrom(tokens, 0, << >>)

MaxCheckRuns == 2

\* The translation units.  Expressions are returned by
\*     long f(long a, long b, long c, long d) { return EXPR; }
FunctionHead ==
    << "l", "o", "n", "g", " ", "f", "(", "l", "o", "n", "g", " ", "a", ",",
    " ", "l", "o", "n", "g", " ", "b", ",", " ", "l", "o", "n", "g", " ",
    "c", ",", " ", "l", "o", "n", "g", " ", "d", ")", " ", "{", " ", "r",
    "e", "t", "u", "r", "n", " " >>
FunctionTail == << ";", " ", "}", "\n" >>

OperandNames == << << "a" >>, << "b" >>, << "c" >>, << "d" >>, << "a" >> >>

\* The binary operators that the parser knows, and one of each level
BinarySpellings ==
    { << "=" >>,
      << "|", "|" >>,
      << "&", "&" >>,
      << "=", "=" >>,
      << "!", "=" >>,
      << "<" >>,
      << "<", "=" >>,
      << ">" >>,
      << ">", "=" >>,
      << "+" >>,
      << "-" >>,
      << "*" >>,
      << "/" >>,
      << "%" >> }
LevelSpellings ==
    { << "=" >>, << "|", "|" >>, << "&", "&" >>, << "=", "=" >>, << "<" >>, << "+" >>, << "*" >> }
PrefixSpellings == { << >>, << "-" >>, << "!" >> }

\* operand k with its prefix, and what follows it: operator k and the rest
RECURSIVE ExpressionText(_, _, _)
ExpressionText(ops, prefixes, k) ==
    prefixes[k] \o OperandNames[k]
    \o (IF k > Len(ops) THEN << >>
        ELSE << " " >> \o ops[k] \o << " " >> \o ExpressionText(ops, prefixes, k + 1))

NoPrefixes(n) == [k \in 1..n |-> << >>]

MaxOperators == 3

\* Chains of one and two operators over all operators, the same with prefix
\* operators over one operator of each level, and longer chains
Expressions ==
    UNION {{ExpressionText(ops, NoPrefixes(n + 1), 1) :
                ops \in [1..n -> BinarySpellings]} : n \in 1..2}
    \cup UNION {{ExpressionText(ops, prefixes, 1) :
                    ops \in [1..n -> LevelSpellings],
                    prefixes \in [1..(n + 1) -> PrefixSpellings]} : n \in 1..2}
    \cup UNION {{ExpressionText(ops, NoPrefixes(n + 1), 1) :
                    ops \in [1..n -> LevelSpellings]} : n \in 3..MaxOperators}

PrecedenceInputs == {FunctionHead \o e \o FunctionTail : e \in Expressions}

\* An array and an index, in the two contexts
\*     long f(long *p, long b, long c) { return A[I]; }
\*     long f(long *p, long b, long c) { A[I] = b; return c; }
\* and the same with *(A + I)
IndexHead ==
    << "l", "o", "n", "g", " ", "f", "(", "l", "o", "n", "g", " ", "*", "p",
    ",", " ", "l", "o", "n", "g", " ", "b", ",", " ", "l", "o", "n", "g",
    " ", "c", ")", " ", "{", " " >>
ArrayTexts ==
    { << "p" >>,
      << "(", "p", ")" >>,
      << "2" >>,
      << "(", "p", " ", "+", " ", "1", ")" >> }
IndexTexts ==
    { << "b" >>,
      << "1" >>,
      << "-", "b" >>,
      << "*", "p" >>,
      << "(", "b", " ", "+", " ", "c", ")" >>,
      << "p", "[", "b", "]" >>,
      << "b", " ", "*", " ", "c" >>,
      << "b", " ", "/", " ", "2", " ", "%", " ", "c" >>,
      << "b", " ", "+", " ", "c" >>,
      << "b", " ", "-", " ", "1" >>,
      << "b", " ", "<", " ", "c" >>,
      << "b", " ", "=", "=", " ", "c" >>,
      << "b", " ", "&", "&", " ", "c" >>,
      << "b", " ", "|", "|", " ", "c" >>,
      << "b", " ", "=", " ", "c" >> }

IndexPrograms == [a : ArrayTexts, i : IndexTexts, context : {"value", "target"}]

InContext(context, expression) ==
    IndexHead \o (IF context = "value"
                  THEN << "r", "e", "t", "u", "r", "n", " " >> \o expression \o << ";", " ", "}", "\n" >>
                  ELSE expression \o << " ", "=", " ", "b", ";", " ", "r", "e", "t", "u", "r", "n", " ", "c",
         ";", " ", "}", "\n" >>)

IndexText(r) == InContext(r.context, r.a \o << "[" >> \o r.i \o << "]" >>)
DerefText(r) ==
    InContext(r.context, << "*", "(" >> \o r.a \o << " ", "+", " " >> \o r.i \o << ")" >>)

IndexInputs == {IndexText(r) : r \in IndexPrograms}

\* Declarations of a variable of a struct type, with the type that each
\* spells (the variable of the last one is a pointer to it)
StructPrograms ==
    { [text |-> << "s", "t", "r", "u", "c", "t", " ", "S", " ", "{", " ", "i", "n", "t",
                  " ", "a", ";", " ", "}", " ", "s", ";", "\n" >>,
       type_ |-> TStruct("S", << Param("a", TInt) >>)],
      [text |-> << "s", "t", "r", "u", "c", "t", " ", "S", " ", "{", " ", "i", "n", "t",
                  " ", "a", ";", " ", "l", "o", "n", "g", " ", "b", ";",
                  " ", "}", " ", "s", ";", "\n" >>,
       type_ |-> TStruct("S", << Param("a", TInt), Param("b", TLong) >>)],
      [text |-> << "s", "t", "r", "u", "c", "t", " ", "P", " ", "{", " ", "c", "h", "a",
                  "r", " ", "*", "n", "a", "m", "e", ";", " ", "i", "n",
                  "t", " ", "n", ";", " ", "l", "o", "n", "g", " ", "v",
                  ";", " ", "}", " ", "p", ";", "\n" >>,
       type_ |-> TStruct("P", << Param("name", TPointer(TChar)), Param("n", TInt), Param("v", TLong) >>)],
      [text |-> << "s", "t", "r", "u", "c", "t", " ", "S", " ", "{", " ", "}", " ", "s",
                  ";", "\n" >>,
       type_ |-> TStruct("S", <<  >>)],
      [text |-> << "s", "t", "r", "u", "c", "t", " ", "S", " ", "s", ";", "\n" >>,
       type_ |-> TStruct("S", <<  >>)],
      [text |-> << "s", "t", "r", "u", "c", "t", " ", "S", " ", "*", "s", ";", "\n" >>,
       type_ |-> TStruct("S", <<  >>)] }

StructInputs == {r.text : r \in StructPrograms}

\* Translation units that end where a token is required, and with a `#`:
\* the includer drops the rest of the line of a directive that is not an
\* include, and the end-of-input token with it
NoEofInputs ==
    { << "i", "n", "t", " ", "x", " ", "#" >>,
      << "i", "n", "t", " ", "#" >>,
      << "i", "n", "t", " ", "x", " ", "=", " ", "#" >>,
      << "i", "n", "t", " ", "x", " ", "=", " ", "1", " ", "+", " ", "#" >>,
      << "i", "n", "t", " ", "x", " ", "=", " ", "1", " ", "*", " ", "#" >>,
      << "i", "n", "t", " ", "x", " ", "=", " ", "a", " ", "&", "&", " ", "#" >>,
      << "i", "n", "t", " ", "x", " ", "=", " ", "y", " ", "=", " ", "#" >>,
      << "i", "n", "t", " ", "x", " ", "=", " ", "-", "#" >>,
      << "i", "n", "t", " ", "f", "(", "#" >>,
      << "i", "n", "t", " ", "f", "(", "i", "n", "t", " ", "a", ",", " ", "#" >>,
      << "i", "n", "t", " ", "f", "(", ")", " ", "{", " ", "#" >>,
      << "i", "n", "t", " ", "f", "(", ")", " ", "{", " ", "r", "e", "t", "u",
           "r", "n", " ", "#" >>,
      << "i", "n", "t", " ", "f", "(", ")", " ", "{", " ", "r", "e", "t", "u",
           "r", "n", " ", "g", "(", "#" >>,
      << "i", "n", "t", " ", "f", "(", ")", " ", "{", " ", "r", "e", "t", "u",
           "r", "n", " ", "g", "(", "1", ",", " ", "#" >>,
      << "i", "n", "t", " ", "f", "(", ")", " ", "{", " ", "r", "e", "t", "u",
           "r", "n", " ", "a", "[", "#" >>,
      << "i", "n", "t", " ", "f", "(", ")", " ", "{", " ", "r", "e", "t", "u",
           "r", "n", " ", "a", ".", "#" >>,
      << "i", "n", "t", " ", "f", "(", ")", " ", "{", " ", "i", "f", " ", "(",
           "a", ")", " ", "#" >>,
      << "i", "n", "t", " ", "f", "(", ")", " ", "{", " ", "w", "h", "i", "l",
           "e", " ", "#" >>,
      << "i", "n", "t", " ", "f", "(", ")", " ", "{", " ", "f", "o", "r", " ",
           "(", ";", ";", "#" >>,
      << "i", "n", "t", " ", "f", "(", ")", " ", "{", " ", "r", "e", "t", "u",
           "r", "n", " ", "(", "#" >>,
      << "s", "t", "r", "u", "c", "t", " ", "S", " ", "{", " ", "#" >> }

\* Comparisons of two operands of the types char, long, int *, int **,
\* int [2] and void, after the declarations of the operands, in
\*     int f() { return X op Y; }
Operands ==
    { [text |-> << "c" >>, type_ |-> TChar,
       declaration |-> << "c", "h", "a", "r", " ", "c", ";", "\n" >>],
      [text |-> << "l" >>, type_ |-> TLong,
       declaration |-> << "l", "o", "n", "g", " ", "l", ";", "\n" >>],
      [text |-> << "p" >>, type_ |-> TPointer(TInt),
       declaration |-> << "i", "n", "t", " ", "*", "p", ";", "\n" >>],
      [text |-> << "q" >>, type_ |-> TPointer(TPointer(TInt)),
       declaration |-> << "i", "n", "t", " ", "*", "*", "q", ";", "\n" >>],
      [text |-> << "a" >>, type_ |-> TArray(TInt, 2),
       declaration |-> << "i", "n", "t", " ", "a", "[", "2", "]", ";", "\n" >>],
      [text |-> << "v", "(", ")" >>, type_ |-> TVoid,
       declaration |-> << "v", "o", "i", "d", " ", "v", "(", ")", " ", "{", " ", "}", "\n" >>] }
Comparisons ==
    { [text |-> << "=", "=" >>, op |-> "Equal"],
      [text |-> << "!", "=" >>, op |-> "NotEqual"],
      [text |-> << "<" >>, op |-> "Less"],
      [text |-> << "<", "=" >>, op |-> "LessEqual"],
      [text |-> << ">" >>, op |-> "Greater"],
      [text |-> << ">", "=" >>, op |-> "GreaterEqual"] }

ComparisonPrograms == [left : Operands, right : Operands, comparison : Comparisons]

ComparisonText(r) ==
    r.left.declaration \o (IF r.right = r.left THEN << >> ELSE r.right.declaration)
    \o << "i", "n", "t", " ", "f", "(", ")", " ", "{", " ", "r", "e", "t", "u",
          "r", "n", " " >>
    \o r.left.text \o << " " >> \o r.comparison.text \o << " " >> \o r.right.text
    \o FunctionTail

ComparisonInputs == {ComparisonText(r) : r \in ComparisonPrograms}

\* Bodies that mention v and a, which are declared, and u, which is not, in
\*     int v(int x, ...);
\*     int f(int a) { BODY }
ReferenceHead ==
    << "i", "n", "t", " ", "v", "(", "i", "n", "t", " ", "x", ",", " ", ".",
    ".", ".", ")", ";", "\n", "i", "n", "t", " ", "f", "(", "i", "n", "t",
    " ", "a", ")", " ", "{", " " >>
ReferenceBodies ==
    { << "r", "e", "t", "u", "r", "n", " ", "u", ";" >>,
      << "r", "e", "t", "u", "r", "n", " ", "a", " ", "+", " ", "u", ";" >>,
      << "u", " ", "=", " ", "a", ";" >>,
      << "r", "e", "t", "u", "r", "n", " ", "v", "(", "u", ")", ";" >>,
      << "r", "e", "t", "u", "r", "n", " ", "v", "(", "a", ",", " ", "a", ")",
           ";" >>,
      << "r", "e", "t", "u", "r", "n", " ", "v", "(", "a", ",", " ", "u", ")",
           ";" >>,
      << "r", "e", "t", "u", "r", "n", " ", "v", "(", "a", ",", " ", "a", ",",
           " ", "u", " ", "+", " ", "1", ")", ";" >>,
      << "i", "f", " ", "(", "a", ")", " ", "r", "e", "t", "u", "r", "n", " ",
           "v", "(", "a", ",", " ", "u", ")", ";" >>,
      << "r", "e", "t", "u", "r", "n", " ", "v", "(", "a", ")", ";" >>,
      << "w", "h", "i", "l", "e", " ", "(", "u", ")", " ", "{", " ", "}" >>,
      << "i", "n", "t", " ", "b", " ", "=", " ", "u", ";" >>,
      << "i", "n", "t", " ", "b", " ", "=", " ", "a", ";", " ", "r", "e", "t",
           "u", "r", "n", " ", "b", ";" >>,
      << "r", "e", "t", "u", "r", "n", " ", "-", "u", ";" >>,
      << "r", "e", "t", "u", "r", "n", " ", "v", "(", "a", ",", " ", "v", "(",
           "a", ",", " ", "u", ")", ")", ";" >> }

ReferenceInputs == {ReferenceHead \o body \o << " ", "}", "\n" >> : body \in ReferenceBodies}

\* Calls of g, h and v, of the variable n and of w, which is not declared,
\* with up to MaxArgs arguments 1 (an int) and p (an int *), after the
\* declaration of the callee, in
\*     int f(int *p) { CALL; }
\*     int f(int *p) { return CALL; }
Callees ==
    { [name |-> << "g" >>, declaration |-> << "i", "n", "t", " ", "g", "(", "i", "n", "t", " ", "x", ",", " ", "i",
               "n", "t", " ", "*", "y", ")", ";", "\n" >>,
       function |-> TRUE, params |-> << TInt, TPointer(TInt) >>, variadic |-> FALSE, returns |-> TInt],
      [name |-> << "h" >>, declaration |-> << "i", "n", "t", " ", "*", "h", "(", "i", "n", "t", " ", "x", ")", ";",
               "\n" >>,
       function |-> TRUE, params |-> << TInt >>, variadic |-> FALSE, returns |-> TPointer(TInt)],
      [name |-> << "v" >>, declaration |-> << "i", "n", "t", " ", "v", "(", "i", "n", "t", " ", "*", "y", ",", " ",
               ".", ".", ".", ")", ";", "\n" >>,
       function |-> TRUE, params |-> << TPointer(TInt) >>, variadic |-> TRUE, returns |-> TInt],
      [name |-> << "n" >>, declaration |-> << "i", "n", "t", " ", "n", ";", "\n" >>,
       function |-> FALSE, params |-> << >>, variadic |-> FALSE, returns |-> TInt],
      [name |-> << "w" >>, declaration |-> << >>,
       function |-> FALSE, params |-> << >>, variadic |-> FALSE, returns |-> TInt] }

MaxArgs == 3

ArgumentTexts == [text : {<< "1" >>, << "p" >>}]
ArgumentType(argument) == IF argument.text = << "1" >> THEN TInt ELSE TPointer(TInt)

ArgumentLists == UNION {[1..n -> ArgumentTexts] : n \in 0..MaxArgs}

RECURSIVE ArgumentsText(_, _)
ArgumentsText(arguments, i) ==
    IF i > Len(arguments) THEN << >>
    ELSE (IF i = 1 THEN << >> ELSE << ",", " " >>) \o arguments[i].text
         \o ArgumentsText(arguments, i + 1)

CallPrograms == [callee : Callees, arguments : ArgumentLists, returned : BOOLEAN]

CallText(r) ==
    r.callee.declaration \o << "i", "n", "t", " ", "f", "(", "i", "n", "t", " ", "*", "p", ")", " ",
         "{", " " >>
    \o (IF r.returned THEN << "r", "e", "t", "u", "r", "n", " " >> ELSE << >>)
    \o r.callee.name \o << "(" >> \o ArgumentsText(r.arguments, 1) \o << ")" >>
    \o FunctionTail

CallTexts == {CallText(r) : r \in CallPrograms}

\* Up to MaxDeclarations top-level declarations of f and g, as functions
\* with a body, as a prototype and as variables
TopLevelTexts ==
    { << "i", "n", "t", " ", "f", "(", ")", " ", "{", " ", "r", "e", "t", "u",
           "r", "n", " ", "1", ";", " ", "}", "\n" >>,
      << "i", "n", "t", " ", "g", "(", ")", " ", "{", " ", "r", "e", "t", "u",
           "r", "n", " ", "2", ";", " ", "}", "\n" >>,
      << "i", "n", "t", " ", "f", "(", ")", ";", "\n" >>,
      << "i", "n", "t", " ", "f", ";", "\n" >>,
      << "l", "o", "n", "g", " ", "g", ";", "\n" >> }

MaxDeclarations == 2

DeclarationLists == UNION {[1..n -> TopLevelTexts] : n \in 1..MaxDeclarations}

RECURSIVE DeclarationsText(_, _)
DeclarationsText(declarations, i) ==
    IF i > Len(declarations) THEN << >>
    ELSE declarations[i] \o DeclarationsText(declarations, i + 1)

DeclarationInputs == {DeclarationsText(d, 1) : d \in DeclarationLists}

\* Programs with string literals: in the initializer of a top-level
\* variable, in a function body, the same one twice, as arguments, and with
\* a newline, a quote and a backslash in them
StringInputs ==
    { << "c", "h", "a", "r", " ", "s", "[", "3", "]", " ", "=", " ", "\"", "h",
         "i", "\"", ";", "\n" >>,
      << "i", "n", "t", " ", "f", "(", "c", "h", "a", "r", " ", "*", "p", ")",
         " ", "{", " ", "p", " ", "=", " ", "\"", "a", "\"", ";", " ", "p",
         " ", "=", " ", "\"", "b", "\"", ";", " ", "r", "e", "t", "u", "r",
         "n", " ", "0", ";", " ", "}", "\n" >>,
      << "i", "n", "t", " ", "f", "(", "c", "h", "a", "r", " ", "*", "p", ")",
         " ", "{", " ", "p", " ", "=", " ", "\"", "a", "\"", ";", " ", "p",
         " ", "=", " ", "\"", "a", "\"", ";", " ", "r", "e", "t", "u", "r",
         "n", " ", "0", ";", " ", "}", "\n" >>,
      << "c", "h", "a", "r", " ", "s", "[", "3", "]", " ", "=", " ", "\"", "h",
         "i", "\"", ";", "\n", "i", "n", "t", " ", "f", "(", "c", "h", "a",
         "r", " ", "*", "p", ")", " ", "{", " ", "p", " ", "=", " ", "\"",
         "a", "\"", ";", " ", "r", "e", "t", "u", "r", "n", " ", "0", ";",
         " ", "}", "\n" >>,
      << "i", "n", "t", " ", "g", "(", "c", "h", "a", "r", " ", "*", "s", ")",
         ";", "\n", "i", "n", "t", " ", "f", "(", ")", " ", "{", " ", "r",
         "e", "t", "u", "r", "n", " ", "g", "(", "\"", "x", "\"", ")", " ",
         "+", " ", "g", "(", "\"", "y", "\"", ")", ";", " ", "}", "\n" >>,
      << "i", "n", "t", " ", "f", "(", "c", "h", "a", "r", " ", "*", "p", ")",
         " ", "{", " ", "p", " ", "=", " ", "\"", "a", "\\", "n", "b",
         "\"", ";", " ", "r", "e", "t", "u", "r", "n", " ", "0", ";", " ",
         "}", "\n" >>,
      << "i", "n", "t", " ", "f", "(", "c", "h", "a", "r", " ", "*", "p", ")",
         " ", "{", " ", "p", " ", "=", " ", "\"", "q", "\\", "\"", "r",
         "\"", ";", " ", "r", "e", "t", "u", "r", "n", " ", "0", ";", " ",
         "}", "\n" >>,
      << "i", "n", "t", " ", "f", "(", "c", "h", "a", "r", " ", "*", "p", ")",
         " ", "{", " ", "p", " ", "=", " ", "\"", "c", "\\", "\\", "\"",
         ";", " ", "r", "e", "t", "u", "r", "n", " ", "0", ";", " ", "}",
         "\n" >>,
      << "i", "n", "t", " ", "f", "(", "c", "h", "a", "r", " ", "*", "p", ")",
         " ", "{", " ", "p", " ", "=", " ", "\"", "\"", ";", " ", "r", "e",
         "t", "u", "r", "n", " ", "0", ";", " ", "}", "\n" >> }

\* Programs that each pass in turn rejects: the scanner, the includer, the
\* parser, the type checker, the code generator; and one that none rejects
StageInputs ==
    { << "i", "n", "t", " ", "x", " ", "=", " ", "@", ";", "\n" >>,
      << "c", "h", "a", "r", " ", "*", "s", " ", "=", " ", "\"", "a" >>,
      << "#", "i", "n", "c", "l", "u", "d", "e", "\n" >>,
      << "#", "i", "n", "c", "l", "u", "d", "e", " ", "\"", "n", "o", "f", "i",
         "l", "e", ".", "h", "\"", "\n", "i", "n", "t", " ", "x", ";",
         "\n" >>,
      << "i", "n", "t", " ", ";", "\n" >>,
      << "i", "n", "t", " ", "f", "(", ")", " ", "{", " ", "r", "e", "t", "u",
         "r", "n", " ", "u", ";", " ", "}", "\n" >>,
      << "i", "n", "t", " ", "*", "g", ";", "\n" >>,
      << "i", "n", "t", " ", "f", "(", ")", " ", "{", " ", "1", " ", "=", " ",
         "2", ";", " ", "r", "e", "t", "u", "r", "n", " ", "0", ";", " ",
         "}", "\n" >>,
      << "i", "n", "t", " ", "f", "(", ")", " ", "{", " ", "r", "e", "t", "u",
         "r", "n", " ", "0", ";", " ", "}", "\n" >> }

\* Programs that declare x, or the parameter a, in a block, in a branch of
\* an if, in the body of a loop or of a function, and use it inside the
\* construct or after it; resolves says whether the name used is bound there
ScopePrograms ==
    { [text |-> << "i", "n", "t", " ", "f", "(", "i", "n", "t", " ", "a", ")", " ", "{",
                 " ", "{", " ", "i", "n", "t", " ", "x", ";", " ", "}",
                 " ", "r", "e", "t", "u", "r", "n", " ", "x", ";", " ",
                 "}", "\n" >>,
       resolves |-> FALSE],
      [text |-> << "i", "n", "t", " ", "f", "(", "i", "n", "t", " ", "a", ")", " ", "{",
                 " ", "{", " ", "i", "n", "t", " ", "x", ";", " ", "r",
                 "e", "t", "u", "r", "n", " ", "x", ";", " ", "}", " ",
                 "}", "\n" >>,
       resolves |-> TRUE],
      [text |-> << "i", "n", "t", " ", "f", "(", "i", "n", "t", " ", "a", ")", " ", "{",
                 " ", "i", "f", " ", "(", "a", ")", " ", "{", " ", "i",
                 "n", "t", " ", "x", ";", " ", "}", " ", "r", "e", "t",
                 "u", "r", "n", " ", "x", ";", " ", "}", "\n" >>,
       resolves |-> FALSE],
      [text |-> << "i", "n", "t", " ", "f", "(", "i", "n", "t", " ", "a", ")", " ", "{",
                 " ", "i", "f", " ", "(", "a", ")", " ", "i", "n", "t",
                 " ", "x", ";", " ", "r", "e", "t", "u", "r", "n", " ",
                 "x", ";", " ", "}", "\n" >>,
       resolves |-> FALSE],
      [text |-> << "i", "n", "t", " ", "f", "(", "i", "n", "t", " ", "a", ")", " ", "{",
                 " ", "i", "f", " ", "(", "a", ")", " ", "{", " ", "}",
                 " ", "e", "l", "s", "e", " ", "i", "n", "t", " ", "x",
                 ";", " ", "r", "e", "t", "u", "r", "n", " ", "x", ";",
                 " ", "}", "\n" >>,
       resolves |-> FALSE],
      [text |-> << "i", "n", "t", " ", "f", "(", "i", "n", "t", " ", "a", ")", " ", "{",
                 " ", "w", "h", "i", "l", "e", " ", "(", "a", ")", " ",
                 "i", "n", "t", " ", "x", ";", " ", "r", "e", "t", "u",
                 "r", "n", " ", "x", ";", " ", "}", "\n" >>,
       resolves |-> FALSE],
      [text |-> << "i", "n", "t", " ", "f", "(", "i", "n", "t", " ", "a", ")", " ", "{",
                 " ", "w", "h", "i", "l", "e", " ", "(", "a", ")", " ",
                 "{", " ", "i", "n", "t", " ", "x", ";", " ", "r", "e",
                 "t", "u", "r", "n", " ", "x", ";", " ", "}", " ", "}",
                 "\n" >>,
       resolves |-> TRUE],
      [text |-> << "i", "n", "t", " ", "f", "(", "i", "n", "t", " ", "a", ")", " ", "{",
                 " ", "f", "o", "r", " ", "(", ";", ";", ")", " ", "i",
                 "n", "t", " ", "x", ";", " ", "r", "e", "t", "u", "r",
                 "n", " ", "x", ";", " ", "}", "\n" >>,
       resolves |-> FALSE],
      [text |-> << "i", "n", "t", " ", "f", "(", "i", "n", "t", " ", "a", ")", " ", "{",
                 " ", "f", "o", "r", " ", "(", ";", ";", ")", " ", "{",
                 " ", "i", "n", "t", " ", "x", ";", " ", "}", " ", "r",
                 "e", "t", "u", "r", "n", " ", "x", ";", " ", "}", "\n" >>,
       resolves |-> FALSE],
      [text |-> << "i", "n", "t", " ", "f", "(", "i", "n", "t", " ", "a", ")", " ", "{",
                 " ", "i", "n", "t", " ", "x", ";", " ", "{", " ", "x",
                 " ", "=", " ", "a", ";", " ", "}", " ", "r", "e", "t",
                 "u", "r", "n", " ", "x", ";", " ", "}", "\n" >>,
       resolves |-> TRUE],
      [text |-> << "i", "n", "t", " ", "f", "(", "i", "n", "t", " ", "a", ")", " ", "{",
                 " ", "i", "n", "t", " ", "x", ";", " ", "i", "f", " ",
                 "(", "a", ")", " ", "{", " ", "l", "o", "n", "g", " ",
                 "x", ";", " ", "}", " ", "r", "e", "t", "u", "r", "n",
                 " ", "x", ";", " ", "}", "\n" >>,
       resolves |-> TRUE],
      [text |-> << "i", "n", "t", " ", "f", "(", "i", "n", "t", " ", "a", ")", " ", "{",
                 " ", "i", "n", "t", " ", "x", ";", " ", "r", "e", "t",
                 "u", "r", "n", " ", "a", ";", " ", "}", "\n", "i", "n",
                 "t", " ", "g", "(", ")", " ", "{", " ", "r", "e", "t",
                 "u", "r", "n", " ", "x", ";", " ", "}", "\n" >>,
       resolves |-> FALSE],
      [text |-> << "i", "n", "t", " ", "f", "(", "i", "n", "t", " ", "a", ")", " ", "{",
                 " ", "i", "n", "t", " ", "x", ";", " ", "r", "e", "t",
                 "u", "r", "n", " ", "a", ";", " ", "}", "\n", "i", "n",
                 "t", " ", "g", "(", ")", " ", "{", " ", "r", "e", "t",
                 "u", "r", "n", " ", "a", ";", " ", "}", "\n" >>,
       resolves |-> FALSE],
      [text |-> << "i", "n", "t", " ", "x", ";", "\n", "i", "n", "t", " ", "f", "(", "i",
                 "n", "t", " ", "a", ")", " ", "{", " ", "{", " ", "i",
                 "n", "t", " ", "a", ";", " ", "}", " ", "r", "e", "t",
                 "u", "r", "n", " ", "x", ";", " ", "}", "\n" >>,
       resolves |-> TRUE] }

ScopeInputs == {r.text : r \in ScopePrograms}

\* Assignments TARGET = VALUE; in
\*     int x; int g(); int f(int a, int b, int *p) { TARGET = VALUE; }
\* (of the two declarations in front only the one that the target names),
\* with the shape of the target, an identifier, a dereference or another
\* value, and whether the types of the two operands are compatible
AssignPrograms ==
    { [target |-> << "1" >>, value |-> << "2" >>,
       shape |-> "value", compatible |-> TRUE],
      [target |-> << "a", " ", "+", " ", "b" >>, value |-> << "2" >>,
       shape |-> "value", compatible |-> TRUE],
      [target |-> << "g", "(", ")" >>, value |-> << "2" >>,
       shape |-> "value", compatible |-> TRUE],
      [target |-> << "-", "a" >>, value |-> << "2" >>,
       shape |-> "value", compatible |-> TRUE],
      [target |-> << "&", "a" >>, value |-> << "2" >>,
       shape |-> "value", compatible |-> FALSE],
      [target |-> << "1" >>, value |-> << "p" >>,
       shape |-> "value", compatible |-> FALSE],
      [target |-> << "&", "a" >>, value |-> << "p" >>,
       shape |-> "value", compatible |-> TRUE],
      [target |-> << "a" >>, value |-> << "2" >>,
       shape |-> "identifier", compatible |-> TRUE],
      [target |-> << "(", "a", ")" >>, value |-> << "2" >>,
       shape |-> "identifier", compatible |-> TRUE],
      [target |-> << "x" >>, value |-> << "2" >>,
       shape |-> "identifier", compatible |-> TRUE],
      [target |-> << "*", "p" >>, value |-> << "2" >>,
       shape |-> "dereference", compatible |-> TRUE],
      [target |-> << "*", "(", "p", " ", "+", " ", "1", ")" >>, value |-> << "2" >>,
       shape |-> "dereference", compatible |-> TRUE],
      [target |-> << "p", "[", "0", "]" >>, value |-> << "2" >>,
       shape |-> "dereference", compatible |-> TRUE],
      [target |-> << "a" >>, value |-> << "p" >>,
       shape |-> "identifier", compatible |-> FALSE] }

AssignText(r) ==
    (IF r.target = << "x" >> THEN << "i", "n", "t", " ", "x", ";", "\n" >> ELSE << >>)
    \o (IF r.target = << "g", "(", ")" >> THEN << "i", "n", "t", " ", "g", "(", ")", ";", "\n" >> ELSE << >>)
    \o << "i", "n", "t", " ", "f", "(", "i", "n", "t", " ", "a", ",", " ", "i",
           "n", "t", " ", "b", ",", " ", "i", "n", "t", " ", "*", "p", ")",
           " ", "{", " " >>
    \o r.target \o << " ", "=", " " >> \o r.value \o << ";", " ", "}", "\n" >>

AssignInputs == {AssignText(r) : r \in AssignPrograms}

\* Programs whose statements and operators take labels from the counter, in
\* one function and in two, and functions named like such labels
LabelInputs ==
    { << "i", "n", "t", " ", "f", "(", "i", "n", "t", " ", "a", ")", " ", "{", " ", "i", "f",
            " ", "(", "a", ")", " ", "a", ";", " ", "}", " ", "i", "n", "t", " ", "g",
            "(", "i", "n", "t", " ", "a", ")", " ", "{", " ", "i", "f", " ", "(", "a",
            ")", " ", "a", ";", " ", "}", "\n" >>,
      << "i", "n", "t", " ", "f", "(", "i", "n", "t", " ", "a", ")", " ", "{", " ", "w", "h",
            "i", "l", "e", " ", "(", "a", ")", " ", "a", ";", " ", "}", " ", "i", "n",
            "t", " ", "g", "(", "i", "n", "t", " ", "a", ")", " ", "{", " ", "a", " ",
            "&", "&", " ", "a", ";", " ", "}", "\n" >>,
      << "i", "n", "t", " ", "f", "(", "i", "n", "t", " ", "a", ")", " ", "{", " ", "f", "o",
            "r", " ", "(", ";", ";", ")", " ", "a", ";", " ", "}", " ", "i", "n", "t",
            " ", "g", "(", "i", "n", "t", " ", "a", ")", " ", "{", " ", "a", " ", "|",
            "|", " ", "a", ";", " ", "}", "\n" >>,
      << "i", "n", "t", " ", "f", "(", "i", "n", "t", " ", "a", ")", " ", "{", " ", "i", "f",
            " ", "(", "a", ")", " ", "w", "h", "i", "l", "e", " ", "(", "a", ")", " ",
            "a", " ", "&", "&", " ", "a", ";", " ", "e", "l", "s", "e", " ", "a", " ",
            "|", "|", " ", "a", ";", " ", "}", "\n" >>,
      << "i", "n", "t", " ", "e", "l", "s", "e", "0", "(", "i", "n", "t", " ", "a", ")", " ",
            "{", " ", "i", "f", " ", "(", "a", ")", " ", "a", ";", " ", "}", " ", "i",
            "n", "t", " ", "e", "n", "d", "i", "f", "1", "(", "i", "n", "t", " ", "a",
            ")", " ", "{", " ", "a", ";", " ", "}", "\n" >>,
      << "i", "n", "t", " ", "f", "(", "i", "n", "t", " ", "a", ")", " ", "{", " ", "f", "o",
            "r", " ", "(", "a", " ", "=", " ", "0", ";", " ", "a", " ", "<", " ", "3",
            ";", " ", "a", " ", "=", " ", "a", " ", "+", " ", "1", ")", " ", "a", ";",
            " ", "}", "\n" >>,
      << "i", "n", "t", " ", "f", "(", "i", "n", "t", " ", "a", ")", " ", "{", " ", "r", "e",
            "t", "u", "r", "n", " ", "a", ";", " ", "}", " ", "i", "n", "t", " ", "g",
            "(", "i", "n", "t", " ", "a", ")", " ", "{", " ", "r", "e", "t", "u", "r",
            "n", " ", "a", " ", "&", "&", " ", "a", ";", " ", "}", "\n" >> }

\* Functions with locals of every size, declared after parameters and
\* after each other, read and written
FrameInputs ==
    { << "l", "o", "n", "g", " ", "f", "(", ")", " ", "{", " ", "l", "o", "n", "g", " ", "l",
            " ", "=", " ", "1", ";", " ", "r", "e", "t", "u", "r", "n", " ", "l", ";",
            " ", "}", "\n" >>,
      << "l", "o", "n", "g", " ", "f", "(", "l", "o", "n", "g", " ", "a", ")", " ", "{", " ",
            "l", "o", "n", "g", " ", "l", " ", "=", " ", "a", ";", " ", "l", "o", "n",
            "g", " ", "*", "p", " ", "=", " ", "&", "l", ";", " ", "r", "e", "t", "u",
            "r", "n", " ", "a", ";", " ", "}", "\n" >>,
      << "l", "o", "n", "g", " ", "f", "(", ")", " ", "{", " ", "c", "h", "a", "r", " ", "c",
            ";", " ", "l", "o", "n", "g", " ", "l", ";", " ", "r", "e", "t", "u", "r",
            "n", " ", "0", ";", " ", "}", "\n" >>,
      << "l", "o", "n", "g", " ", "f", "(", ")", " ", "{", " ", "c", "h", "a", "r", " ", "a",
            "[", "3", "]", ";", " ", "r", "e", "t", "u", "r", "n", " ", "0", ";", " ",
            "}", "\n" >>,
      << "l", "o", "n", "g", " ", "f", "(", "l", "o", "n", "g", " ", "a", ")", " ", "{", " ",
            "i", "n", "t", " ", "i", " ", "=", " ", "1", ";", " ", "i", "n", "t", " ",
            "j", " ", "=", " ", "2", ";", " ", "r", "e", "t", "u", "r", "n", " ", "i",
            ";", " ", "}", "\n" >>,
      << "l", "o", "n", "g", " ", "f", "(", ")", " ", "{", " ", "c", "h", "a", "r", " ", "c",
            " ", "=", " ", "1", ";", " ", "r", "e", "t", "u", "r", "n", " ", "c", ";",
            " ", "}", "\n" >>,
      << "l", "o", "n", "g", " ", "f", "(", "l", "o", "n", "g", " ", "a", ")", " ", "{", " ",
            "i", "n", "t", " ", "i", ";", " ", "l", "o", "n", "g", " ", "*", "p", ";",
            " ", "r", "e", "t", "u", "r", "n", " ", "0", ";", " ", "}", "\n" >> }

MainInputs ==
    PrecedenceInputs \cup IndexInputs \cup StructInputs \cup NoEofInputs
    \cup ComparisonInputs \cup ReferenceInputs \cup CallTexts
    \cup DeclarationInputs \cup StringInputs \cup StageInputs
    \cup ScopeInputs \cup AssignInputs \cup LabelInputs \cup FrameInputs

InitMain ==
    /\ main_source \in MainInputs
    /\ main_stage = "source"
    /\ main_tokens = << >>
    /\ main_ast = << >>
    /\ main_checker = NewTypeChecker
    /\ check_runs = 0
    /\ main_assembly = << >>
    /\ main_error = << >>

MainIdle ==
    /\ main_source = << >>
    /\ main_stage = "idle"
    /\ main_tokens = << >>
    /\ main_ast = << >>
    /\ main_checker = NewTypeChecker
    /\ check_runs = 0
    /\ main_assembly = << >>
    /\ main_error = << >>

\* The error of a pass ends the run
MainFail(pass, e) ==
    /\ main_stage' = "failed"
    /\ main_error' = << [pass |-> pass, location |-> e.location,
                         message |-> e.message] >>

\* let tokens = lexer.tokenize()?
MainTokenize ==
    /\ main_stage = "source"
    /\ LET r == tokenize(NewLexer(main_source, MainPath))
       IN  IF r.ok
           THEN /\ main_tokens' = r.tokens
                /\ main_stage' = "tokenized"
                /\ UNCHANGED main_error
           ELSE MainFail("lexer", r) /\ UNCHANGED main_tokens
    /\ UNCHANGED << main_source, main_ast, main_checker, check_runs, main_assembly >>
    /\ UNCHANGED << cgvars, lexvars, ppvars >>

\* let preprocessed_tokens = preprocessor.preprocess(tokens)?
MainPreprocess ==
    /\ main_stage = "tokenized"
    /\ LET r == preprocess(main_tokens)
       IN  IF r.ok
           THEN /\ main_tokens' = r.tokens
                /\ main_stage' = "preprocessed"
                /\ UNCHANGED main_error
           ELSE MainFail("preprocessor", r) /\ UNCHANGED main_tokens
    /\ UNCHANGED << main_source, main_ast, main_checker, check_runs, main_assembly >>
    /\ UNCHANGED << cgvars, lexvars, ppvars >>

\* let ast = parser.parse_program()?
MainParse ==
    /\ main_stage = "preprocessed"
    /\ LET r == parse_program(NewParser(main_tokens))
       IN  IF r.ok
           THEN /\ main_ast' = << r.node >>
                /\ main_stage' = "parsed"
                /\ UNCHANGED main_error
           ELSE /\ main_stage' = IF r.panic THEN "panicked" ELSE "failed"
                /\ main_error' = << [pass |-> "parser", location |-> r.location,
                                     message |-> r.message] >>
                /\ UNCHANGED main_ast
    /\ UNCHANGED << main_source, main_tokens, main_checker, check_runs, main_assembly >>
    /\ UNCHANGED << cgvars, lexvars, ppvars >>

\* typechecker.check_program(&ast)?
MainCheck ==
    /\ main_stage = "parsed"
    /\ LET r == check_program(main_checker, main_ast[1])
       IN  IF r.ok
           THEN /\ main_checker' = r.tc
                /\ main_stage' = "checked"
                /\ UNCHANGED main_error
           ELSE MainFail("typechecker", r) /\ UNCHANGED main_checker
    /\ check_runs' = 1
    /\ UNCHANGED << main_source, main_tokens, main_ast, main_assembly >>
    /\ UNCHANGED << cgvars, lexvars, ppvars >>

\* code generation that also runs on a tree the type checker has rejected
MainGenerateAnyway ==
    /\ \/ main_stage = "checked"
       \/ main_stage = "failed" /\ main_error[1].pass = "typechecker"
    /\ main_assembly' = generate(NewCodeGenerator, main_ast[1]).output
    /\ main_stage' = "generated"
    /\ UNCHANGED << main_source, main_tokens, main_ast, main_checker, check_runs,
                    main_error >>
    /\ UNCHANGED << cgvars, lexvars, ppvars >>

\* let assembly = codegen.generate(&ast)?
MainGenerate ==
    /\ main_stage = "checked"
    /\ LET r == generate(NewCodeGenerator, main_ast[1])
       IN  IF Ok(r)
           THEN /\ main_assembly' = r.output
                /\ main_stage' = "generated"
                /\ UNCHANGED main_error
           ELSE /\ MainFail("codegen", [location |-> UnknownLocation, message |-> r.err])
                /\ UNCHANGED main_assembly
    /\ UNCHANGED << main_source, main_tokens, main_ast, main_checker, check_runs >>
    /\ UNCHANGED << cgvars, lexvars, ppvars >>

\* check_program once more, on the same tree and with the same TypeChecker
CheckAgain ==
    /\ main_stage = "checked"
    /\ check_runs < MaxCheckRuns
    /\ LET r == check_program(main_checker, main_ast[1])
       IN  IF r.ok
           THEN /\ main_checker' = r.tc
                /\ UNCHANGED << main_stage, main_error >>
           ELSE MainFail("typechecker", r) /\ UNCHANGED main_checker
    /\ check_runs' = check_runs + 1
    /\ UNCHANGED << main_source, main_tokens, main_ast, main_assembly >>
    /\ UNCHANGED << cgvars, lexvars, ppvars >>

(***************************************************************************)
(* The specifications: the generated code on the machine (Spec), a run of  *)
(* the scanner (SpecLex), a run of the includer (SpecPP) and a run of the  *)
(* passes of main, with further runs of the type checker (SpecMain).  Each *)
(* leaves the variables of the others at rest.                             *)
(***************************************************************************)
CGIdle ==
    /\ program = Program(<< >>)
    /\ entry = [a |-> Zero64, b |-> Zero64, c |-> Zero64]
    /\ cg = NewCodeGenerator
    /\ status = "idle"
    /\ pc = 0
    /\ regs = EntryRegs(Zero64, Zero64, Zero64)
    /\ mem = [x \in 0..(MemSize - 1) |-> 0]
    /\ flags = NoFlags
    /\ executed = {}
    /\ calls = << >>

vars == << cgvars, lexvars, ppvars, mainvars >>

Init == InitCG /\ LexIdle /\ PPIdle /\ MainIdle
Next == NextCG
Spec == Init /\ [][Next]_vars

LexInit == InitLex /\ CGIdle /\ PPIdle /\ MainIdle
LexNext ==
    \/ LexToken
    \/ LexEof
    \/ LexError
SpecLex == LexInit /\ [][LexNext]_vars

\* Lines of a main.c for the includer, each with what the includer does at
\* it: it goes on to the next line (returns), it returns an error (fails),
\* or it includes a file that includes itself, at once or through another
\* file (recurs)
CycleLines ==
    { [text |-> << "i", "n", "t", " ", "x", ";", "\n" >>,
       does |-> "returns"],
      [text |-> << "#", "p", "r", "a", "g", "m", "a", " ", "o", "n", "c", "e", "\n" >>,
       does |-> "returns"],
      [text |-> << "#", "i", "n", "c", "l", "u", "d", "e", " ", "\"", "a", ".", "h", "\"",
                 "\n" >>,
       does |-> "returns"],
      [text |-> << "#", "i", "n", "c", "l", "u", "d", "e", " ", "\"", "d", ".", "h", "\"",
                 "\n" >>,
       does |-> "returns"],
      [text |-> << "#", "i", "n", "c", "l", "u", "d", "e", " ", "5", "\n" >>,
       does |-> "fails"],
      [text |-> << "#", "i", "n", "c", "l", "u", "d", "e", " ", "\"", "n", ".", "h", "\"",
                 "\n" >>,
       does |-> "fails"],
      [text |-> << "#", "i", "n", "c", "l", "u", "d", "e", " ", "\"", "e", ".", "h", "\"",
                 "\n" >>,
       does |-> "fails"],
      [text |-> << "#", "i", "n", "c", "l", "u", "d", "e", " ", "\"", "s", ".", "h", "\"",
                 "\n" >>,
       does |-> "recurs"],
      [text |-> << "#", "i", "n", "c", "l", "u", "d", "e", " ", "\"", "k", ".", "h", "\"",
                 "\n" >>,
       does |-> "recurs"],
      [text |-> << "#", "i", "n", "c", "l", "u", "d", "e", " ", "\"", "t", ".", "h", "\"",
                 "\n" >>,
       does |-> "recurs"],
      [text |-> << "#", "i", "n", "c", "l", "u", "d", "e", " ", "\"", "u", ".", "h", "\"",
                 "\n" >>,
       does |-> "recurs"] }

MaxCycleLines == 2

CyclePrograms == UNION {[1..n -> CycleLines] : n \in 1..MaxCycleLines}

RECURSIVE CycleText(_, _)
CycleText(lines, i) ==
    IF i > Len(lines) THEN << >> ELSE lines[i].text \o CycleText(lines, i + 1)

\* The token vectors handed to preprocess
CycleInputs ==
    {tokenize(NewLexer(CycleText(c, 1), MainPath)).tokens : c \in CyclePrograms}

InitCycle ==
    /\ pp_input \in CycleInputs
    /\ frames = << Frame(pp_input) >>
    /\ pp_status = "running"
    /\ pp_result = << >>
    /\ pp_error = << >>

PPInit == InitPP /\ CGIdle /\ LexIdle /\ MainIdle
PPNext ==
    \/ PPToken
    \/ PPDirective
    \/ PPInclude
    \/ PPReturn
SpecPP == PPInit /\ [][PPNext]_vars

\* A run of the includer that goes on as long as it can
CycleInit == InitCycle /\ CGIdle /\ LexIdle /\ MainIdle
SpecCycle == CycleInit /\ [][PPNext]_vars /\ WF_vars(PPNext)

\* main, from the source text to the assembly text, as one function: the
\* stage that the compilation ends in and the assembly (none on failure)
Outcome(stage, assembly) == [stage |-> stage, assembly |-> assembly]

CompileSource(text) ==
    Only({IF ~t.ok THEN Outcome("failed", << >>) ELSE
    Only({IF ~pp.ok THEN Outcome("failed", << >>) ELSE
    Only({IF ~ast.ok THEN Outcome(IF ast.panic THEN "panicked" ELSE "failed", << >>) ELSE
    Only({IF ~checked.ok THEN Outcome("failed", << >>) ELSE
    Only({IF Ok(asm) THEN Outcome("generated", asm.output) ELSE Outcome("failed", << >>)
          : asm \in {generate(NewCodeGenerator, ast.node)}})
          : checked \in {check_program(NewTypeChecker, ast.node)}})
          : ast \in {parse_program(NewParser(pp.tokens))}})
          : pp \in {preprocess(t.tokens)}})
          : t \in {tokenize(NewLexer(text, MainPath))}})

MainInit == InitMain /\ CGIdle /\ LexIdle /\ PPIdle
MainNext ==
    \/ MainTokenize
    \/ MainPreprocess
    \/ MainParse
    \/ MainCheck
    \/ MainGenerate
    \/ CheckAgain
SpecMain == MainInit /\ [][MainNext]_vars

-----------------------------------------------------------------------------
(* Properties of the generated code.                                       *)

\* What C computes for a OP b on 64-bit signed operands.
Bool64(x) == IF x THEN One64 ELSE Zero64

CBinary(op, a, b) ==
    CASE op = "Add" -> Add64(a, b)
      [] op = "Subtract" -> Sub64(a, b)
      [] op = "Multiply" -> Mul64(a, b)
      [] op = "Equal" -> Bool64(a = b)
      [] op = "NotEqual" -> Bool64(a # b)
      [] op = "Less" -> Bool64(SLt(a, b))
      [] op = "LessEqual" -> Bool64(~SLt(b, a))
      [] op = "Greater" -> Bool64(SLt(b, a))
      [] op = "GreaterEqual" -> Bool64(~SLt(a, b))
      [] op = "BitwiseAnd" -> And64(a, b)
      [] op = "BitwiseOr" -> Or64(a, b)
      [] op = "BitwiseXor" -> Xor64(a, b)
      [] op = "Divide" -> UDivMod(Zero64, a, b).q
      [] op = "Modulo" -> UDivMod(Zero64, a, b).r

\* The function under test returns `a OP b` for an OP of ops.
IsBinaryOf(ops) ==
    /\ Len(program.declarations[3].params) = Len(TestParams)
    /\ TestExpr(program).kind = "BinaryExpr"
    /\ TestExpr(program).op \in ops
    /\ TestExpr(program).left = IdA
    /\ TestExpr(program).right = IdB

\* C1: the code generated for `a OP b`, OP one of + - * == != < <= > >=
\* & | ^, runs to its return without a fault and returns a OP b in rax.
C1_BinaryResult ==
    IsBinaryOf(ArithOps) =>
        /\ status # "fault"
        /\ status # "rejected"
        /\ status = "halted" =>
              regs["rax"] = CBinary(TestExpr(program).op, entry.a, entry.b)

\* 2 - 7 has returned -5, and 2 < 7 has returned 1
C1_Witness ==
    /\ IsBinaryOf({"Subtract"})
    /\ status = "halted"
    /\ entry.a = W64(2)
    /\ entry.b = W64(7)
    /\ regs["rax"] = Neg64(W64(5))

\* C2: for a >= 0 and b > 0 the code generated for `a / b` and `a % b`
\* returns the quotient, respectively the remainder, of a by b; at the div
\* instruction the divisor operand holds b and rdx is zero.
C2_DivisionResult ==
    (/\ IsBinaryOf(DivOps)
     /\ ~IsNeg64(entry.a)
     /\ ~IsNeg64(entry.b)
     /\ entry.b # Zero64) =>
        /\ status # "fault"
        /\ (Running /\ Line.op = "div") =>
              /\ regs[Line.a.r] = entry.b
              /\ regs["rdx"] = Zero64
        /\ status = "halted" =>
              regs["rax"] = CBinary(TestExpr(program).op, entry.a, entry.b)

\* The function under test returns `a && R` or `a || R`.
IsLogicalTest ==
    /\ TestExpr(program).kind = "BinaryExpr"
    /\ IsLogical(TestExpr(program).op)

\* The left operand alone decides the result.
LeftDecides ==
    /\ IsLogicalTest
    /\ \/ TestExpr(program).op = "LogicalAnd" /\ entry.a = Zero64
       \/ TestExpr(program).op = "LogicalOr" /\ entry.a # Zero64

\* The value the lowering of the right operand R leaves in rax: b for `b`
\* and `c = b`, what the call returned for `g(b)`, and the address p for
\* `*p = b` (the store through a pointer ends with the address in rax).
RightValue ==
    CASE TestExpr(program).right.kind = "FunctionCall" -> calls[Len(calls)].ret
      [] TestExpr(program).right.kind = "BinaryExpr"
            /\ TestExpr(program).right.left.kind = "UnaryExpr" -> W64(DataAddr)
      [] OTHER -> entry.b

\* C3: `L && R` returns 0 when L is 0, `L || R` returns 1 when L is not 0,
\* and otherwise either returns 1 if R is not 0 and 0 if it is; the result
\* is always 0 or 1.
C3_LogicalResult ==
    (IsLogicalTest /\ status = "halted") =>
        /\ regs["rax"] \in {Zero64, One64}
        /\ regs["rax"] =
              IF LeftDecides
              THEN Bool64(TestExpr(program).op = "LogicalOr")
              ELSE Bool64(RightValue # Zero64)

\* The output lines of the right operand of the expression under test:
\* those emitted between the push of the left value and the pop of it.
RightLines ==
    LET c0 == FunctionProlog(
                  CollectFunctions(emit_header(NewCodeGenerator),
                                   program.declarations, 1),
                  program.declarations[3])
        c1 == Emit(generate_node(c0, TestExpr(program).left),
                   Ins1("push", Reg("rax")))
        c2 == generate_node(c1, TestExpr(program).right)
    IN  (Len(c1.output) + 1)..Len(c2.output)

\* C4: when the left operand decides the result of `L && R` or `L || R`,
\* no instruction of R is executed and no call of R is made.
C4_ShortCircuit ==
    (LeftDecides /\ status # "source") =>
        /\ executed \cap RightLines = {}
        /\ calls = << >>

\* The function under test returns a call of h.
IsCallTest ==
    /\ TestExpr(program).kind = "FunctionCall"
    /\ TestExpr(program).name = "h"

\* The value of an argument, for the arguments whose value the entry state
\* fixes: a parameter and the sum b + c.
Determined(arg) ==
    IF arg.kind = "BinaryExpr" THEN arg.op = "Add" ELSE arg.kind = "Identifier"

ArgValue(arg) ==
    IF arg.kind = "Identifier" THEN entry[arg.name] ELSE Add64(entry.b, entry.c)

\* C5: when control reaches the `call h` of a call with up to four
\* arguments, rcx, rdx, r8 and r9 hold the values of the arguments in order:
\* lowering a later argument does not change a register loaded earlier.
C5_CallArguments ==
    (IsCallTest /\ Len(TestExpr(program).args) <= Len(ParamRegisters)) =>
        \A e \in 1..Len(calls) :
            calls[e].name = "h" =>
                \A i \in 1..Len(ParamRegisters) :
                    (i <= Len(TestExpr(program).args)
                        /\ Determined(TestExpr(program).args[i])) =>
                    calls[e][ParamRegisters[i]] = ArgValue(TestExpr(program).args[i])

\* C6: a call with more than four arguments is rejected by the code
\* generator: no assembly is produced for it.
C6_StackArgsRejected ==
    (IsCallTest /\ Len(TestExpr(program).args) > Len(ParamRegisters)
        /\ status # "source") =>
        status = "rejected"

-----------------------------------------------------------------------------
(* Properties of the includer.                                             *)

\* The tokens of a file as process_include reads them.
FileTokens(path) == tokenize(NewLexer(read_to_string(path), path)).tokens

\* The position of the first `>` at or after position k, 0 if there is none.
RECURSIVE ClosingAngle(_, _)
ClosingAngle(tokens, k) ==
    IF k > Len(tokens) THEN 0
    ELSE IF tokens[k].kind = "GreaterThan" THEN k
    ELSE ClosingAngle(tokens, k + 1)

\* The lexemes of the tokens at positions k to last, concatenated.
RECURSIVE Lexemes(_, _, _)
Lexemes(tokens, k, last) ==
    IF k > last THEN << >>
    ELSE (CASE tokens[k].kind = "Identifier" -> tokens[k].payload
            [] tokens[k].kind = "Dot" -> << "." >>
            [] tokens[k].kind = "Slash" -> << "/" >>)
         \o Lexemes(tokens, k + 1, last)

\* The directive whose `#` is at position k, read as an #include: whether
\* it is one that names an existing file, the position of its last token
\* (the string literal or the `>`), and the file.
StringInclude(tokens, k) ==
    LET path == join(parent(tokens[k + 2].filename), tokens[k + 2].payload)
    IN  [ok |-> exists(path), last |-> k + 2, path |-> path]

AngleInclude(tokens, k) ==
    LET last == ClosingAngle(tokens, k + 3)
        named == \A j \in (k + 3)..(last - 1) :
                     tokens[j].kind \in {"Identifier", "Dot", "Slash"}
        path == join(include_paths[1], Lexemes(tokens, k + 3, last - 1))
    IN  IF last = 0 \/ ~named THEN [ok |-> FALSE, last |-> k, path |-> << >>]
        ELSE [ok |-> exists(path), last |-> last, path |-> path]

IncludeAt(tokens, k) ==
    IF k + 2 > Len(tokens) \/ ~IsInclude(tokens[k + 1])
    THEN [ok |-> FALSE, last |-> k, path |-> << >>]
    ELSE IF tokens[k + 2].kind = "StringLiteral" THEN StringInclude(tokens, k)
    ELSE IF tokens[k + 2].kind = "LessThan" THEN AngleInclude(tokens, k)
    ELSE [ok |-> FALSE, last |-> k, path |-> << >>]

HasDirective(tokens) == \E k \in 1..Len(tokens) : tokens[k].kind = "Hash"

\* From position k on, every directive of tokens is a resolvable #include,
\* and so is every directive of the files they include.
RECURSIVE OnlyIncludes(_, _)
OnlyIncludes(tokens, k) ==
    IF k > Len(tokens) THEN TRUE
    ELSE IF tokens[k].kind # "Hash" THEN OnlyIncludes(tokens, k + 1)
    ELSE /\ IncludeAt(tokens, k).ok
         /\ OnlyIncludes(FileTokens(IncludeAt(tokens, k).path), 1)
         /\ OnlyIncludes(tokens, IncludeAt(tokens, k).last + 1)

\* tokens from position k on, with the tokens of each #include directive
\* replaced by the expansion of the tokens of its file.
RECURSIVE Expand(_, _)
Expand(tokens, k) ==
    IF k > Len(tokens) THEN << >>
    ELSE IF tokens[k].kind # "Hash" THEN << tokens[k] >> \o Expand(tokens, k + 1)
    ELSE Expand(FileTokens(IncludeAt(tokens, k).path), 1)
         \o Expand(tokens, IncludeAt(tokens, k).last + 1)

\* C7: when the only directives are resolvable #include directives, in the
\* string or the angle form, preprocess returns the input with the tokens of
\* each directive replaced by the preprocessed tokens of its file and every
\* other token kept once and in order; the token after a directive is kept.
C7_IncludeReplaced ==
    (/\ pp_status \in {"done", "error"}
     /\ HasDirective(pp_input)
     /\ OnlyIncludes(pp_input, 1)) =>
        /\ pp_status = "done"
        /\ pp_result = Expand(pp_input, 1)

\* Every `#` of tokens starts a directive that is not an #include: it is
\* followed on its line by an identifier other than include.
OnlyUnrecognized(tokens) ==
    \A k \in 1..Len(tokens) :
        tokens[k].kind = "Hash" =>
            /\ k < Len(tokens)
            /\ tokens[k + 1].kind = "Identifier"
            /\ ~IsInclude(tokens[k + 1])
            /\ tokens[k + 1].location.line = tokens[k].location.line

\* The lines of the directives of tokens; a directive ends with its line.
DirectiveLines(tokens) ==
    {tokens[k].location.line : k \in {j \in 1..Len(tokens) : tokens[j].kind = "Hash"}}

\* tokens without the tokens of its directives
WithoutDirectives(tokens) ==
    LET Outside(t) == t.location.line \notin DirectiveLines(tokens)
    IN  SelectSeq(tokens, Outside)

\* C8: the tokens of an unrecognized directive, its `#`, its name and its
\* body, do not appear in the output of preprocess, and the tokens outside
\* the directives are kept in order.
C8_DirectiveRemoved ==
    (/\ pp_status \in {"done", "error"}
     /\ HasDirective(pp_input)
     /\ OnlyUnrecognized(pp_input)) =>
        /\ pp_status = "done"
        /\ pp_result = WithoutDirectives(pp_input)

-----------------------------------------------------------------------------
(* Properties of the scanner.                                              *)

\* The first position at or after k where the two characters c, d follow
\* each other, 0 if there is none.
RECURSIVE Find(_, _, _, _)
Find(text, k, c, d) ==
    IF k + 1 > Len(text) THEN 0
    ELSE IF text[k] = c /\ text[k + 1] = d THEN k
    ELSE Find(text, k + 1, c, d)

RECURSIVE FindNewline(_, _)
FindNewline(text, k) ==
    IF k > Len(text) THEN Len(text)
    ELSE IF text[k] = "\n" THEN k
    ELSE FindNewline(text, k + 1)

\* The position of the `/` of the block comment that opens at or after
\* position p, outside every comment, and is never closed; 0 if there is
\* none.  (For texts without character and string literals.)
RECURSIVE OpenCommentFrom(_, _)
OpenCommentFrom(text, p) ==
    IF p + 1 > Len(text) THEN 0
    ELSE IF text[p] = "/" /\ text[p + 1] = "/"
    THEN OpenCommentFrom(text, FindNewline(text, p + 2) + 1)
    ELSE IF text[p] = "/" /\ text[p + 1] = "*"
    THEN IF Find(text, p + 2, "*", "/") = 0 THEN p
         ELSE OpenCommentFrom(text, Find(text, p + 2, "*", "/") + 2)
    ELSE OpenCommentFrom(text, p + 1)

OpenComment(text) == OpenCommentFrom(text, 1)

HasOpenComment(text) ==
    /\ \A k \in 1..Len(text) : text[k] \notin {"'", "\""}
    /\ OpenComment(text) # 0

LineOf(text, p) == 1 + Cardinality({k \in 1..(p - 1) : text[k] = "\n"})

ColumnOf(text, p) ==
    p - (CHOOSE k \in 0..(p - 1) :
            /\ k > 0 => text[k] = "\n"
            /\ \A j \in (k + 1)..(p - 1) : text[j] # "\n")

\* C9: a text with a `/*` that is never closed is a lexical error located at
\* the line and column of the `/` that opens the comment.
C9_UnterminatedComment ==
    (lex_status \in {"done", "error"} /\ HasOpenComment(lexer.input)) =>
        /\ lex_status = "error"
        /\ lex_error[1].location.line =
              LineOf(lexer.input, OpenComment(lexer.input))
        /\ lex_error[1].location.column =
              ColumnOf(lexer.input, OpenComment(lexer.input))

\* The text without the `;` that may follow the literal
Spelled(text) ==
    IF text # << >> /\ text[Len(text)] = ";"
    THEN SubSeq(text, 1, Len(text) - 1)
    ELSE text

AllIn(s, k, set) == \A j \in k..Len(s) : s[j] \in set

IsDecimal(s) == Len(s) >= 1 /\ AllIn(s, 1, Digits) /\ (s[1] # "0" \/ Len(s) = 1)
IsHex(s) == Len(s) >= 3 /\ s[1] = "0" /\ s[2] \in {"x", "X"} /\ AllIn(s, 3, HexDigits)
IsOctal(s) == Len(s) >= 2 /\ s[1] = "0" /\ AllIn(s, 2, OctDigits)
IsIntegerSpelling(s) == IsDecimal(s) \/ IsHex(s) \/ IsOctal(s)

\* Bytes of the numbers the spellings denote: enough for 2^96.
WideLen == WordLen + 4

\* The sum of digit * weight over the digits at positions first to k, the
\* digit at k having the given weight and each digit to its left radix
\* times the weight of its right neighbour.
RECURSIVE Positional(_, _, _, _, _)
Positional(s, radix, first, k, weight) ==
    IF k < first THEN Extend(<< >>, WideLen)
    ELSE AddBytes(MulSmall(weight, to_digit(s[k])),
                  Positional(s, radix, first, k - 1, MulSmall(weight, radix)),
                  1, 0)

\* The arithmetic value of a spelling in its base.
SpellingValue(s) ==
    LET radix == IF IsHex(s) THEN 16 ELSE IF IsOctal(s) THEN 8 ELSE 10
        first == IF IsHex(s) THEN 3 ELSE 1
    IN  Positional(s, radix, first, Len(s), Extend(One64, WideLen))

\* The value lies in [0, 2^63).
InI64Range(v) == v[WordLen] < 128 /\ \A j \in (WordLen + 1)..WideLen : v[j] = 0

\* C10: an integer literal spelled in decimal, hexadecimal or octal whose
\* value is below 2^63 gives one IntLiteral token with that value; a
\* spelling whose value does not fit an i64 gives a lexical error at the
\* literal and no token.
C10_IntegerLiteral ==
    (lex_status \in {"done", "error"} /\ IsIntegerSpelling(Spelled(lexer.input))) =>
        IF InI64Range(SpellingValue(Spelled(lexer.input)))
        THEN /\ lex_status = "done"
             /\ Len(lex_tokens) = 2 + Len(lexer.input) - Len(Spelled(lexer.input))
             /\ lex_tokens[1].kind = "IntLiteral"
             /\ lex_tokens[1].payload =
                   SubSeq(SpellingValue(Spelled(lexer.input)), 1, WordLen)
             /\ lex_tokens[2].kind # "IntLiteral"
        ELSE /\ lex_status = "error"
             /\ lex_tokens = << >>
             /\ lex_error[1].location = Location("main.c", 1, 1)

\* 9223372036854775807 has been scanned to the token of i64::MAX
C10_Witness ==
    /\ lex_status = "done"
    /\ lexer.input = MaxDecimal
    /\ lex_tokens[1].kind = "IntLiteral"
    /\ lex_tokens[1].payload = MaxI64

\* The spellings of the operators and punctuators of TokenKind
Spellings ==
    { [kind |-> "Plus", text |-> << "+" >>],
      [kind |-> "Minus", text |-> << "-" >>],
      [kind |-> "Asterisk", text |-> << "*" >>],
      [kind |-> "Slash", text |-> << "/" >>],
      [kind |-> "Percent", text |-> << "%" >>],
      [kind |-> "Increment", text |-> << "+", "+" >>],
      [kind |-> "Decrement", text |-> << "-", "-" >>],
      [kind |-> "Equal", text |-> << "=", "=" >>],
      [kind |-> "NotEqual", text |-> << "!", "=" >>],
      [kind |-> "LessThan", text |-> << "<" >>],
      [kind |-> "LessThanEqual", text |-> << "<", "=" >>],
      [kind |-> "GreaterThan", text |-> << ">" >>],
      [kind |-> "GreaterThanEqual", text |-> << ">", "=" >>],
      [kind |-> "LogicalAnd", text |-> << "&", "&" >>],
      [kind |-> "LogicalOr", text |-> << "|", "|" >>],
      [kind |-> "LogicalNot", text |-> << "!" >>],
      [kind |-> "BitwiseAnd", text |-> << "&" >>],
      [kind |-> "BitwiseOr", text |-> << "|" >>],
      [kind |-> "BitwiseXor", text |-> << "^" >>],
      [kind |-> "BitwiseNot", text |-> << "~" >>],
      [kind |-> "ShiftLeft", text |-> << "<", "<" >>],
      [kind |-> "ShiftRight", text |-> << ">", ">" >>],
      [kind |-> "Assign", text |-> << "=" >>],
      [kind |-> "PlusAssign", text |-> << "+", "=" >>],
      [kind |-> "MinusAssign", text |-> << "-", "=" >>],
      [kind |-> "MultiplyAssign", text |-> << "*", "=" >>],
      [kind |-> "DivideAssign", text |-> << "/", "=" >>],
      [kind |-> "ModuloAssign", text |-> << "%", "=" >>],
      [kind |-> "AndAssign", text |-> << "&", "=" >>],
      [kind |-> "OrAssign", text |-> << "|", "=" >>],
      [kind |-> "XorAssign", text |-> << "^", "=" >>],
      [kind |-> "ShiftLeftAssign", text |-> << "<", "<", "=" >>],
      [kind |-> "ShiftRightAssign", text |-> << ">", ">", "=" >>],
      [kind |-> "LeftParen", text |-> << "(" >>],
      [kind |-> "RightParen", text |-> << ")" >>],
      [kind |-> "LeftBrace", text |-> << "{" >>],
      [kind |-> "RightBrace", text |-> << "}" >>],
      [kind |-> "LeftBracket", text |-> << "[" >>],
      [kind |-> "RightBracket", text |-> << "]" >>],
      [kind |-> "Semicolon", text |-> << ";" >>],
      [kind |-> "Comma", text |-> << "," >>],
      [kind |-> "Dot", text |-> << "." >>],
      [kind |-> "Arrow", text |-> << "-", ">" >>],
      [kind |-> "Colon", text |-> << ":" >>],
      [kind |-> "QuestionMark", text |-> << "?" >>],
      [kind |-> "Ellipsis", text |-> << ".", ".", "." >>],
      [kind |-> "Hash", text |-> << "#" >>],
      [kind |-> "HashHash", text |-> << "#", "#" >>] }

\* s occurs in the text at position p
OccursAt(s, text, p) ==
    /\ p + Len(s) - 1 <= Len(text)
    /\ \A j \in 1..Len(s) : text[p + j - 1] = s[j]

\* The longest operator or punctuator that occurs in the text at p
LongestAt(text, p) ==
    CHOOSE sp \in Spellings :
        /\ OccursAt(sp.text, text, p)
        /\ \A other \in Spellings :
              OccursAt(other.text, text, p) => Len(other.text) <= Len(sp.text)

\* The position in the text of a line and a column
OffsetOf(text, loc) ==
    CHOOSE p \in 1..(Len(text) + 1) :
        LineOf(text, p) = loc.line /\ ColumnOf(text, p) = loc.column

\* A text of operators, punctuators and blanks in which no comment begins
IsOperatorText(text) ==
    /\ \A k \in 1..Len(text) : text[k] \in OperatorChars \cup {" "}
    /\ Find(text, 1, "/", "/") = 0
    /\ Find(text, 1, "/", "*") = 0

\* The kinds of the longest operators from position p on, blanks skipped
RECURSIVE Munch(_, _)
Munch(text, p) ==
    IF p > Len(text) THEN << >>
    ELSE IF text[p] = " " THEN Munch(text, p + 1)
    ELSE << LongestAt(text, p).kind >>
         \o Munch(text, p + Len(LongestAt(text, p).text))

OperatorKinds == {sp.kind : sp \in Spellings}

\* C11: every operator or punctuator token that the scanner emits is the
\* longest one of the token set that occurs in the text at the token's
\* position, and a text of operators alone is scanned to exactly the sequence
\* of its longest matches: `...` is one Ellipsis, `..` two Dots, `....`
\* Ellipsis then Dot, and `<<=`, `>>=`, `<=`, `>=`, `==`, `!=`, `&&`, `||`, `++`,
\* `--`, `->`, `##` are one token each.
C11_LongestMatch ==
    /\ \A k \in 1..Len(lex_tokens) :
          lex_tokens[k].kind \in OperatorKinds =>
              lex_tokens[k].kind =
                  LongestAt(lexer.input,
                            OffsetOf(lexer.input, lex_tokens[k].location)).kind
    /\ (lex_status \in {"done", "error"} /\ IsOperatorText(lexer.input)) =>
          /\ lex_status = "done"
          /\ [k \in 1..Len(lex_tokens) |-> lex_tokens[k].kind]
                = Munch(lexer.input, 1) \o << "Eof" >>

\* `....` has been scanned to Ellipsis, Dot, Eof
C11_Witness ==
    /\ lex_status = "done"
    /\ lexer.input = Rep(".", 4)
    /\ Len(lex_tokens) = 3
    /\ lex_tokens[1].kind = "Ellipsis"
    /\ lex_tokens[2].kind = "Dot"

-----------------------------------------------------------------------------
(* Properties of the parser.                                               *)

\* The token kind that spells an operator of the tree
BinaryKind ==
    [Add |-> "Plus", Subtract |-> "Minus", Multiply |-> "Asterisk",
     Divide |-> "Slash", Modulo |-> "Percent", Equal |-> "Equal",
     NotEqual |-> "NotEqual", Less |-> "LessThan", LessEqual |-> "LessThanEqual",
     Greater |-> "GreaterThan", GreaterEqual |-> "GreaterThanEqual",
     LogicalAnd |-> "LogicalAnd", LogicalOr |-> "LogicalOr", Assign |-> "Assign"]
UnaryKind ==
    [Negate |-> "Minus", LogicalNot |-> "LogicalNot", BitwiseNot |-> "BitwiseNot",
     Dereference |-> "Asterisk", AddressOf |-> "BitwiseAnd"]

\* The levels of the binary operators, lowest first; 8 for everything else
Level ==
    [Assign |-> 1, LogicalOr |-> 2, LogicalAnd |-> 3, Equal |-> 4, NotEqual |-> 4,
     Less |-> 5, LessEqual |-> 5, Greater |-> 5, GreaterEqual |-> 5, Add |-> 6,
     Subtract |-> 6, Multiply |-> 7, Divide |-> 7, Modulo |-> 7]

NodeLevel(node) == IF node.kind = "BinaryExpr" THEN Level[node.op] ELSE 8

\* The operands and operators of a tree from left to right
RECURSIVE Flatten(_)
Flatten(node) ==
    CASE node.kind = "BinaryExpr" ->
           Flatten(node.left) \o << BinaryKind[node.op] >> \o Flatten(node.right)
      [] node.kind = "UnaryExpr" -> << UnaryKind[node.op] >> \o Flatten(node.expr)
      [] node.kind = "Identifier" -> << node.name >>
      [] OTHER -> << node.kind >>

\* Every operator of the tree has operands of its own level or a higher one
\* on its left and of a higher level on its right; `=` the other way round;
\* a prefix operator has an operand without binary operator.
RECURSIVE Grouped(_)
Grouped(node) ==
    CASE node.kind = "BinaryExpr" ->
           /\ IF node.op = "Assign"
              THEN NodeLevel(node.left) > 1
              ELSE /\ NodeLevel(node.left) >= Level[node.op]
                   /\ NodeLevel(node.right) > Level[node.op]
           /\ Grouped(node.left)
           /\ Grouped(node.right)
      [] node.kind = "UnaryExpr" -> NodeLevel(node.expr) = 8 /\ Grouped(node.expr)
      [] OTHER -> TRUE

\* The expression that f returns, and the tokens it was parsed from
ReturnedExpression == main_ast[1].declarations[1].body[1].statements[1].value[1]

ReturnIndex == CHOOSE k \in 1..Len(main_tokens) : main_tokens[k].kind = "Return"

ReturnedLexemes ==
    LET last == CHOOSE k \in ReturnIndex..Len(main_tokens) :
                    main_tokens[k].kind = "Semicolon"
    IN  [k \in 1..(last - ReturnIndex - 1) |->
            LET token == main_tokens[ReturnIndex + k]
            IN  IF token.kind = "Identifier" THEN Str(token.payload) ELSE token.kind]

Parsing == main_stage \in {"source", "tokenized", "preprocessed"}

\* C12: an expression of operands, prefix operators and the binary operators
\* `=`, `||`, `&&`, `== !=`, `< <= > >=`, `+ -`, `* / %` parses to the tree that
\* has its operands and operators in source order and groups every operator
\* more tightly than those of a lower level, operators of one level to the
\* left, `=` to the right, and prefix operators tightest.
C12_Precedence ==
    (main_source \in PrecedenceInputs /\ ~Parsing) =>
        /\ main_ast # << >>
        /\ Flatten(ReturnedExpression) = ReturnedLexemes
        /\ Grouped(ReturnedExpression)

\* a || b && c has been parsed to a || (b && c), and a - b - c to (a - b) - c
C12_Witness ==
    /\ main_source \in PrecedenceInputs
    /\ main_stage = "generated"
    /\ \/ /\ ReturnedLexemes = << "a", "LogicalOr", "b", "LogicalAnd", "c" >>
          /\ ReturnedExpression.op = "LogicalOr"
          /\ ReturnedExpression.right.op = "LogicalAnd"
       \/ /\ ReturnedLexemes = << "a", "Minus", "b", "Minus", "c" >>
          /\ ReturnedExpression.op = "Subtract"
          /\ ReturnedExpression.left.op = "Subtract"

\* The compilation has ended
Done == main_stage \in {"generated", "failed", "panicked"}

\* The level of the operator at the top of an index
IndexLevel(i) ==
    NodeLevel(parse_expression(NewParser(tokenize(NewLexer(i, MainPath)).tokens)).node)

SameAsDeref(r) ==
    (main_source = IndexText(r) /\ Done) =>
        CompileSource(DerefText(r)) = Outcome(main_stage, main_assembly)

\* As stated: compiling `a[i]` and `*(a + i)` gives the same assembly for
\* every primary expression a and every expression i.
C13_AnyIndex == \A r \in IndexPrograms : SameAsDeref(r)

\* C13: for every primary expression a and every expression i without an
\* operator of the level of `+ -` or of a lower level outside parentheses and
\* brackets, compiling a program with `a[i]` and the same program
\* with `*(a + i)` in its place ends in the same way and with the same
\* assembly text.
C13_IndexIsDeref ==
    \A r \in IndexPrograms :
        (main_source = IndexText(r) /\ Done /\ IndexLevel(r.i) > Level["Add"]) =>
            CompileSource(DerefText(r)) = Outcome(main_stage, main_assembly)

\* p[b * c] has been compiled, to the assembly of *(p + b * c)
C13_Witness ==
    \E r \in IndexPrograms :
        /\ r.a = << "p" >> /\ r.i = << "b", " ", "*", " ", "c" >>
        /\ main_source = IndexText(r)
        /\ main_stage = "generated"
        /\ main_assembly # << >>
        /\ CompileSource(DerefText(r)).assembly = main_assembly

\* The type of the variable that the first declaration declares
DeclaredType == main_ast[1].declarations[1].type_

\* C14: a declaration whose type specifier is struct NAME { T1 f1; ... Tn fn; }
\* with at least one member parses, to the type Struct(NAME, members) with
\* the members in source order.
C14_StructParses ==
    \A r \in StructPrograms :
        (main_source = r.text /\ ~Parsing /\ r.type_.members # << >>) =>
            /\ main_ast # << >>
            /\ DeclaredType = r.type_

\* C15: parse_program returns a Program node or a syntax error and never
\* aborts, also for tokens that do not end with an end-of-input token; where
\* a token is required and the cursor is past the last token, the result is a
\* syntax error that carries the unknown location.
C15_ParserReturns ==
    /\ main_stage # "panicked"
    /\ (main_source \in NoEofInputs /\ Done) =>
           /\ main_stage = "failed"
           /\ main_error[1].pass = "parser"
           /\ main_error[1].location = UnknownLocation

-----------------------------------------------------------------------------
(* Properties of the type checker.                                         *)

\* The type checker has run, and what it answered
Checked == main_stage \notin {"source", "tokenized", "preprocessed", "parsed"}
Rejected == main_stage = "failed" /\ main_error[1].pass = "typechecker"
Accepted == Checked /\ ~Rejected

BothIntegerOrBothPointer(left_type, right_type) ==
    \/ left_type.t \in {"Char", "Int", "Long"} /\ right_type.t \in {"Char", "Int", "Long"}
    \/ left_type.t \in {"Pointer", "Array"} /\ right_type.t \in {"Pointer", "Array"}

\* C16: `==`, `!=`, `<`, `<=`, `>`, `>=` are accepted exactly when both
\* operands have an integer type or both have a pointer or array type, and
\* then have the type Int; every other pair of operand types is a type error;
\* the condition is the same for the equality and the relational operators.
C16_Comparisons ==
    \A r \in ComparisonPrograms :
        (main_source = ComparisonText(r) /\ Checked) =>
            /\ Accepted <=> BothIntegerOrBothPointer(r.left.type_, r.right.type_)
            /\ Accepted =>
                  BinaryType(main_checker, r.comparison.op, r.left.type_,
                             r.right.type_, UnknownLocation).type = TInt

\* The number of fixed parameters of the function that a tree declares
\* under a name (0 if it declares none)
FixedParameters(tree, name) ==
    LET declared == {i \in 1..Len(tree.declarations) :
                        /\ tree.declarations[i].kind = "FunctionDecl"
                        /\ tree.declarations[i].name = name}
    IN  IF declared = {} THEN 0
        ELSE Len(StripEllipsis(tree.declarations[CHOOSE i \in declared : TRUE].params, 1))

\* The names that the Identifier nodes of a node refer to: all of them, or
\* (fixed_only) all but those in the arguments of a call beyond the fixed
\* parameters of the function called
RECURSIVE Mentions(_, _, _)
MentionsAll(tree, nodes, fixed_only) ==
    UNION {Mentions(tree, nodes[i], fixed_only) : i \in 1..Len(nodes)}

Mentions(tree, node, fixed_only) ==
    CASE node.kind = "Identifier" -> {node.name}
      [] node.kind = "BinaryExpr" ->
           Mentions(tree, node.left, fixed_only) \cup Mentions(tree, node.right, fixed_only)
      [] node.kind = "UnaryExpr" -> Mentions(tree, node.expr, fixed_only)
      [] node.kind = "FunctionCall" ->
           IF fixed_only /\ FixedParameters(tree, node.name) < Len(node.args)
           THEN MentionsAll(tree, SubSeq(node.args, 1, FixedParameters(tree, node.name)),
                            fixed_only)
           ELSE MentionsAll(tree, node.args, fixed_only)
      [] node.kind = "ExpressionStmt" -> Mentions(tree, node.expr, fixed_only)
      [] node.kind = "ReturnStmt" -> MentionsAll(tree, node.value, fixed_only)
      [] node.kind = "IfStmt" ->
           Mentions(tree, node.condition, fixed_only)
           \cup Mentions(tree, node.then_branch, fixed_only)
           \cup MentionsAll(tree, node.else_branch, fixed_only)
      [] node.kind = "WhileStmt" ->
           Mentions(tree, node.condition, fixed_only)
           \cup Mentions(tree, node.body, fixed_only)
      [] node.kind = "ForStmt" ->
           MentionsAll(tree, node.init, fixed_only)
           \cup MentionsAll(tree, node.condition, fixed_only)
           \cup MentionsAll(tree, node.increment, fixed_only)
           \cup Mentions(tree, node.body, fixed_only)
      [] node.kind = "BlockStmt" -> MentionsAll(tree, node.statements, fixed_only)
      [] node.kind = "VarDecl" -> MentionsAll(tree, node.initializer, fixed_only)
      [] node.kind = "FunctionDecl" -> MentionsAll(tree, node.body, fixed_only)
      [] node.kind = "Program" -> MentionsAll(tree, node.declarations, fixed_only)
      [] OTHER -> {}

\* The names that a tree declares anywhere: variables, functions, parameters
RECURSIVE Declares(_)
DeclaresAll(nodes) == UNION {Declares(nodes[i]) : i \in 1..Len(nodes)}

Declares(node) ==
    CASE node.kind = "VarDecl" -> {node.name}
      [] node.kind = "FunctionDecl" ->
           {node.name} \cup {node.params[i].name : i \in 1..Len(node.params)}
           \cup DeclaresAll(node.body)
      [] node.kind = "Program" -> DeclaresAll(node.declarations)
      [] node.kind = "BlockStmt" -> DeclaresAll(node.statements)
      [] node.kind = "IfStmt" ->
           Declares(node.then_branch) \cup DeclaresAll(node.else_branch)
      [] node.kind \in {"WhileStmt", "ForStmt"} -> Declares(node.body)
      [] OTHER -> {}

\* As stated: a program that check_program accepts mentions no name in an
\* expression that the program does not declare, arguments of variadic calls
\* beyond the fixed parameters included.
C17_EveryIdentifierBound ==
    (main_source \in ReferenceInputs /\ Accepted) =>
        Mentions(main_ast[1], main_ast[1], FALSE) \subseteq Declares(main_ast[1])

\* C17: a program that check_program accepts mentions no name that the
\* program does not declare in any expression other than the arguments of a
\* call beyond the fixed parameters of the function called; a program with
\* such a mention is rejected with a type error.
C17_IdentifiersBound ==
    (main_source \in ReferenceInputs /\ Accepted) =>
        Mentions(main_ast[1], main_ast[1], TRUE) \subseteq Declares(main_ast[1])

\* v(a, a, u + 1) has been accepted: a is bound, and u is mentioned only
\* beyond the one fixed parameter of v
C17_Witness ==
    /\ main_source \in ReferenceInputs
    /\ main_stage = "checked"
    /\ Mentions(main_ast[1], main_ast[1], TRUE) = {"a"}
    /\ Mentions(main_ast[1], main_ast[1], FALSE) = {"a", "u"}

\* What the call of a program is checked against: the callee is a function,
\* a function that is not variadic gets as many arguments as it has
\* parameters, every argument at the position of a parameter is compatible
\* with it, and a returned call has a type compatible with the int that f
\* returns
CallAllowed(r) ==
    /\ r.callee.function
    /\ r.callee.variadic \/ Len(r.arguments) = Len(r.callee.params)
    /\ \A i \in 1..Len(r.arguments) :
          i <= Len(r.callee.params) =>
              is_compatible(ArgumentType(r.arguments[i]), r.callee.params[i])
    /\ r.returned => is_compatible(r.callee.returns, TInt)

\* C18: a call of a function that is not variadic is accepted only with as
\* many arguments as parameters; every argument at the position of a fixed
\* parameter must be compatible with the type of the parameter; a callee that
\* is unbound or not a function is a type error; an accepted call has the
\* return type of the function.
C18_Calls ==
    \A r \in CallPrograms :
        (main_source = CallText(r) /\ Checked) => (Accepted <=> CallAllowed(r))

\* return g(1, p) has been accepted
C18_Witness ==
    \E r \in CallPrograms :
        /\ r.callee.name = << "g" >> /\ r.returned /\ Len(r.arguments) = 2
        /\ main_source = CallText(r)
        /\ CallAllowed(r) /\ Checked /\ Accepted

\* The checker after one run of check_program on the tree, from a new checker
FirstRun == check_program(NewTypeChecker, main_ast[1])

\* C19: check_program run again on the same well-typed tree with the same
\* checker returns Ok and leaves the checker as the first run left it: one
\* scope, with the same bindings, and no current function return type.
C19_CheckAgainIsNoOp ==
    check_runs >= 2 =>
        /\ ~Rejected
        /\ FirstRun.ok /\ main_checker = FirstRun.tc
        /\ Len(main_checker.scopes) = 1
        /\ main_checker.current_function_return_type = << >>

\* a tree that binds two global names and has a function with a body has
\* been checked twice
C19_Witness ==
    /\ check_runs = 2 /\ main_stage = "checked"
    /\ Cardinality(DOMAIN main_checker.scopes[1]) >= 2
    /\ \E i \in 1..Len(main_ast[1].declarations) :
          /\ main_ast[1].declarations[i].kind = "FunctionDecl"
          /\ main_ast[1].declarations[i].body # << >>

\* The lines of the assembly that define a label, and the spelling that tells
\* two labels apart: `name` for a function and for a global variable, and
\* the dotted spellings, which differ when their parts do
Defines(i) == main_assembly[i].op = "def"
LabelText(label) ==
    IF label.k \in {"func", "global"} THEN << "name", label.r, 0 >>
    ELSE << label.k, label.r, label.n >>
DefinitionsOf(label) ==
    {i \in 1..Len(main_assembly) :
        Defines(i) /\ LabelText(main_assembly[i].a) = LabelText(label)}

\* The names of the functions of the tree that have a body
FunctionsWithBody ==
    {main_ast[1].declarations[i].name : i \in
        {j \in 1..Len(main_ast[1].declarations) :
            /\ main_ast[1].declarations[j].kind = "FunctionDecl"
            /\ main_ast[1].declarations[j].body # << >>}}

\* C20: the assembly generated for a program that the type checker accepted
\* defines, for every function with a body, the label `name:` once and the
\* label `.nameret:` once, with every `jmp .nameret` between the two, and
\* defines no label twice.
C20_LabelsDefinedOnce ==
    main_stage = "generated" =>
        /\ \A name \in FunctionsWithBody :
              /\ Cardinality(DefinitionsOf(FuncLabel(name))) = 1
              /\ Cardinality(DefinitionsOf(RetLabel(name))) = 1
              /\ \A i \in 1..Len(main_assembly) :
                    main_assembly[i] = Ins1("jmp", RetLabel(name)) =>
                        /\ \E d \in DefinitionsOf(FuncLabel(name)) : d < i
                        /\ \E d \in DefinitionsOf(RetLabel(name)) : i < d
        /\ \A i \in 1..Len(main_assembly) :
              Defines(i) => Cardinality(DefinitionsOf(main_assembly[i].a)) = 1

\* The string literals of a tree, in the order of the source
RECURSIVE StringsOf(_)
RECURSIVE StringsOfAll(_, _)
StringsOfAll(nodes, i) ==
    IF i > Len(nodes) THEN << >>
    ELSE StringsOf(nodes[i]) \o StringsOfAll(nodes, i + 1)

StringsOf(node) ==
    CASE node.kind = "StringLiteral" -> << node.value >>
      [] node.kind = "BinaryExpr" -> StringsOf(node.left) \o StringsOf(node.right)
      [] node.kind = "UnaryExpr" -> StringsOf(node.expr)
      [] node.kind = "FunctionCall" -> StringsOfAll(node.args, 1)
      [] node.kind = "ExpressionStmt" -> StringsOf(node.expr)
      [] node.kind = "ReturnStmt" -> StringsOfAll(node.value, 1)
      [] node.kind = "BlockStmt" -> StringsOfAll(node.statements, 1)
      [] node.kind = "VarDecl" -> StringsOfAll(node.initializer, 1)
      [] node.kind = "FunctionDecl" -> StringsOfAll(node.body, 1)
      [] node.kind = "Program" -> StringsOfAll(node.declarations, 1)
      [] OTHER -> << >>

\* The characters that the assembler reads from the text between the quotes
\* of an .ascii line: a backslash takes the next character with it, and a
\* quote that no backslash precedes ends the text
RECURSIVE Assembled(_, _)
Assembled(text, i) ==
    IF i > Len(text) \/ text[i] = "\"" THEN << >>
    ELSE IF text[i] # "\\" THEN << text[i] >> \o Assembled(text, i + 1)
    ELSE IF i = Len(text) THEN << "\"" >>
    ELSE << Unescape(text[i + 1]) >> \o Assembled(text, i + 2)

\* The lines of the assembly that hold entry n of .rodata with a payload,
\* and the lines that load the address of entry n
EntriesOf(n, payload) ==
    {i \in 1..(Len(main_assembly) - 2) :
        /\ main_assembly[i] = Def(RoData(n))
        /\ main_assembly[i + 1].op = ".ascii"
        /\ Assembled(main_assembly[i + 1].a.r, 1) = payload
        /\ main_assembly[i + 2] = Ins1(".byte", ImmN(0))}
LoadsOf(n) ==
    {i \in 1..Len(main_assembly) : main_assembly[i] = Ins("lea", Reg("rax"), RoData(n))}

\* C21: for every string literal of a program that compiles, in a function
\* body or in the initializer of a top-level variable, the assembly has one
\* entry .LCn of .rodata that holds the payload of the literal and a null
\* byte after it, and one `lea rax, [rip + .LCn]` that names it.
C21_StringEntries ==
    (main_source \in StringInputs /\ main_stage = "generated") =>
        \A k \in 1..Len(StringsOf(main_ast[1])) :
            /\ Cardinality(EntriesOf(k - 1, StringsOf(main_ast[1])[k])) = 1
            /\ Cardinality(LoadsOf(k - 1)) = 1

\* The passes in the order of main, and the stage that each ends in
Passes == << "lexer", "preprocessor", "parser", "typechecker", "codegen" >>
Stages == << "source", "tokenized", "preprocessed", "parsed", "checked", "generated" >>
StageRank(stage) == CHOOSE k \in 1..Len(Stages) : Stages[k] = stage
PassRank(pass) == CHOOSE k \in 1..Len(Passes) : Passes[k] = pass

\* The passes that have returned successfully in a state
PassesDone ==
    IF main_stage \in {"failed", "panicked"} THEN PassRank(main_error[1].pass) - 1
    ELSE StageRank(main_stage) - 1

\* Only a pass that has returned successfully has left its result
NoLaterResult ==
    /\ main_tokens # << >> => PassesDone >= 1
    /\ main_ast # << >> => PassesDone >= 3
    /\ check_runs > 0 => PassesDone >= 3
    /\ main_assembly # << >> => PassesDone = 5
    /\ main_error # << >> <=> main_stage \in {"failed", "panicked"}

\* A step of the pipeline runs the pass after the last one that returned:
\* it ends in the next stage or, with an error of that pass, in failure; the
\* type checker may run again; after an error no pass runs
PassInOrder ==
    /\ main_stage \notin {"failed", "panicked"}
    /\ IF main_stage' \in {"failed", "panicked"}
       THEN PassRank(main_error'[1].pass) = StageRank(main_stage)
       ELSE \/ StageRank(main_stage') = StageRank(main_stage) + 1
            \/ main_stage' = "checked" /\ main_stage = "checked"
    /\ NoLaterResult'

\* C22: the passes of a run execute in the order lexer, includer, parser,
\* type checker, code generator, each only after the one before it returned
\* successfully; after an error of a pass no later pass runs and no
\* assembly is produced.
C22_PassesInOrder == [][PassInOrder]_vars

\* the type checker has rejected a parsed program, and no assembly exists
C22_Witness ==
    /\ main_source \in StageInputs
    /\ main_stage = "failed" /\ main_error[1].pass = "typechecker"
    /\ main_ast # << >> /\ check_runs = 1
    /\ main_assembly = << >>

\* The function f of the tree, the checker at the first statement of its
\* body (f defined, its return type current, its parameters in a scope, the
\* block of the body in another) and the checker before statement i
FunctionF ==
    main_ast[1].declarations[
        CHOOSE i \in 1..Len(main_ast[1].declarations) :
            main_ast[1].declarations[i].kind = "FunctionDecl"
            /\ main_ast[1].declarations[i].name = "f"]

BodyStart ==
    LET before == IF main_ast[1].declarations[1].kind = "VarDecl"
                  THEN check_node(NewTypeChecker, main_ast[1].declarations[1]).tc
                  ELSE NewTypeChecker
        declared == define(before, "f",
                           TFunction(FunctionF.return_type,
                                     StripEllipsis(FunctionF.params, 1), FALSE))
        inside == [declared EXCEPT
                      !.current_function_return_type = << FunctionF.return_type >>]
    IN  enter_scope(DefineParams(enter_scope(inside), FunctionF.params, 1))

RECURSIVE BeforeStatement(_)
BeforeStatement(i) ==
    IF i = 1 THEN TOk(BodyStart, TVoid)
    ELSE Only({IF b.ok THEN check_node(b.tc, FunctionF.body[1].statements[i - 1]) ELSE b
               : b \in {BeforeStatement(i - 1)}})

\* The names that a statement declares in the scope it stands in
DeclaredBy(statement) == IF statement.kind = "VarDecl" THEN {statement.name} ELSE {}

\* A statement that check_node accepts leaves the depth of the scope stack,
\* the enclosing scopes, the current return type and, but for the names it
\* declares, the current scope as they were
FrameKept(tc, statement) ==
    LET r == check_node(tc, statement)
        depth == Len(tc.scopes)
    IN  r.ok =>
            /\ Len(r.tc.scopes) = depth
            /\ \A k \in 1..(depth - 1) : r.tc.scopes[k] = tc.scopes[k]
            /\ DOMAIN r.tc.scopes[depth] \ DeclaredBy(statement)
                   = DOMAIN tc.scopes[depth] \ DeclaredBy(statement)
            /\ \A n \in DOMAIN tc.scopes[depth] \ DeclaredBy(statement) :
                   r.tc.scopes[depth][n] = tc.scopes[depth][n]
            /\ r.tc.current_function_return_type = tc.current_function_return_type

\* C23: a statement that check_node accepts leaves the scope stack as deep as
\* it was and the bindings as they were, but for the names it declares in
\* the current scope; a variable declared in a block, a branch of an if, a
\* loop body or a function body is not resolved after the construct (its
\* use there is an undefined-variable error), and after a function
\* declaration the current return type is the one before it.
C23_ScopesPopped ==
    \A r \in ScopePrograms :
        (main_source = r.text /\ Checked) =>
            /\ Accepted <=> r.resolves
            /\ Rejected => main_error[1].message = "Undefined variable"
            /\ Accepted =>
                  /\ Len(main_checker.scopes) = 1
                  /\ DOMAIN main_checker.scopes[1] \subseteq {"f", "g", "x"}
                  /\ "x" \in DOMAIN main_checker.scopes[1]
                         <=> main_ast[1].declarations[1].kind = "VarDecl"
                  /\ main_checker.current_function_return_type = << >>
            /\ \A i \in 1..Len(FunctionF.body[1].statements) :
                  BeforeStatement(i).ok =>
                      FrameKept(BeforeStatement(i).tc, FunctionF.body[1].statements[i])

\* int x; if (a) { long x; } return x; has been accepted: the block in the
\* branch has been left and x is the int again
C23_Witness ==
    \E r \in ScopePrograms :
        /\ main_source = r.text /\ main_stage = "checked"
        /\ Len(FunctionF.body[1].statements) = 3
        /\ FunctionF.body[1].statements[2].kind = "IfStmt"
        /\ lookup(BeforeStatement(3).tc, "x") = << TInt >>
        /\ FrameKept(BeforeStatement(2).tc, FunctionF.body[1].statements[2])

\* C24: an assignment whose left operand is neither an identifier nor a
\* dereference passes the parser, passes the type checker when the types of
\* its operands are compatible, and is then rejected by the code generator;
\* the code generator rejects no assignment to an identifier or to a
\* dereference for the shape of its target.
C24_AssignmentTargets ==
    \A r \in AssignPrograms :
        (main_source = AssignText(r) /\ Done) =>
            IF ~r.compatible
            THEN Rejected
            ELSE IF r.shape = "value"
            THEN /\ main_stage = "failed"
                 /\ main_error[1].pass = "codegen"
                 /\ main_error[1].message =
                       "Left operand of assignment must be an identifier or dereferenced pointer"
                 /\ main_assembly = << >>
            ELSE main_stage = "generated"

\* a + b = 2 has been rejected by the code generator
C24_Witness ==
    \E r \in AssignPrograms :
        /\ r.target = << "a", " ", "+", " ", "b" >>
        /\ main_source = AssignText(r)
        /\ main_stage = "failed" /\ main_error[1].pass = "codegen"
        /\ check_runs >= 1

\* preprocess has returned, a token vector or an error
\* rsp when the body of f begins: below the return address, the saved rbp
\* and the home of each parameter
BodyRsp == W64(EntryRsp - WordLen * (1 + Len(program.declarations[3].params)))

\* C30: evaluating an expression leaves rsp as it was: when the code of the
\* returned expression has run (a binary operator, a store through a
\* pointer, a logical operator whose jump is taken or not, a call with its
\* register saves and up to MaxCallArgs arguments), every push has been
\* undone by a pop or by the `add rsp` after the call.
C30_StackBalanced ==
    (Running /\ Line = Ins1("jmp", RetLabel("f"))) => regs["rsp"] = BodyRsp

\* a call with two arguments on the stack has returned and its code has run
C30_Witness ==
    /\ Running /\ Line = Ins1("jmp", RetLabel("f"))
    /\ TestExpr(program).kind = "FunctionCall"
    /\ Len(TestExpr(program).args) = MaxCallArgs
    /\ Len(calls) = 1
    /\ regs["rsp"] = BodyRsp

\* format!("{}", n) of a usize
RECURSIVE Decimal(_)
Decimal(n) ==
    IF n < 10 THEN << "0", "1", "2", "3", "4", "5", "6", "7", "8", "9" >>[n + 1]
    ELSE Decimal(n \div 10) \o Decimal(n % 10)

\* A label as it is written in the assembly text
Spelling(label) ==
    CASE label.k = "label" -> "." \o label.r \o Decimal(label.n)
      [] label.k = "retlabel" -> "." \o label.r \o "ret"
      [] OTHER -> label.r

\* The labels in the assembly that generate_label returned
GeneratedLabels ==
    {main_assembly[i].a : i \in {j \in 1..Len(main_assembly) :
                                    main_assembly[j].a.k = "label"}}

\* The lines that define a label spelled as the given one
SpelledAs(label) ==
    {i \in 1..Len(main_assembly) :
        Defines(i) /\ Spelling(main_assembly[i].a) = Spelling(label)}

\* C26: in the assembly of one run of generate the labels that
\* generate_label returned carry the numbers 0, 1, 2, ... of a counter that
\* goes on from function to function, each number once; no two of them are
\* spelled alike, each is defined on one line, and that line is not the
\* line of a function label `name:` or of a label `.nameret:`.
C26_FreshLabels ==
    main_stage = "generated" =>
        /\ {l.n : l \in GeneratedLabels} = 0..(Cardinality(GeneratedLabels) - 1)
        /\ \A l, m \in GeneratedLabels : Spelling(l) = Spelling(m) => l = m
        /\ \A l \in GeneratedLabels :
              /\ Cardinality(SpelledAs(l)) = 1
              /\ \A i \in SpelledAs(l) : main_assembly[i].a = l

\* two functions, each with a label of its own, the second one numbered on
\* from the first
C26_Witness ==
    /\ main_stage = "generated"
    /\ \E i, j, k \in 1..Len(main_assembly) :
          /\ i < j /\ j < k
          /\ Defines(i) /\ main_assembly[i].a.k = "label"
          /\ Defines(j) /\ main_assembly[j].a.k = "func"
          /\ Defines(k) /\ main_assembly[k].a.k = "label"
          /\ main_assembly[k].a.n > main_assembly[i].a.n

\* The places of the end-of-input tokens in a token vector
EofPlaces(tokens) == {k \in 1..Len(tokens) : tokens[k].kind = "Eof"}

\* C27: the token vector that preprocess returns holds one end-of-input
\* token, its last element, also for an input with #include directives or
\* with a directive at its end; parse_program, which stops at the first
\* end-of-input token, so comes to the end of the vector.
C27_OneEofLast ==
    pp_status = "done" =>
        /\ EofPlaces(pp_result) = {Len(pp_result)}
        /\ \A parsed \in {parse_program(NewParser(pp_result))} :
              parsed.ok => parsed.p.pos = Len(pp_result)

\* The generator after the parameters of f and the first k statements of
\* its body
LoweredUpTo(k) ==
    GenerateStatements(FunctionProlog(NewCodeGenerator, FunctionF),
                       SubSeq(FunctionF.body[1].statements, 1, k), 1)

\* The sum of the operands of the lines `sub rsp, size` from line i on
RECURSIVE Subtracted(_, _)
Subtracted(output, i) ==
    IF i > Len(output) THEN 0
    ELSE (IF output[i].op = "sub" /\ output[i].a = Reg("rsp")
          THEN AsUsize(output[i].b.w) ELSE 0) + Subtracted(output, i + 1)

\* The bytes below rbp that are reserved after the first k statements: 8
\* for each pushed parameter and what was subtracted from rsp
ReservedUpTo(k) == 8 * Len(FunctionF.params) + Subtracted(LoweredUpTo(k).output, 1)

\* C28: after each local declaration of a function is lowered, the bytes
\* reserved below rbp (8 for each pushed parameter and the operands of the
\* `sub rsp, size` so far) are at least the offset recorded for every local
\* declared so far: the home [rbp-offset] of a local is not below rsp.
C28_LocalsReserved ==
    (main_stage = "generated" /\ main_source \in FrameInputs) =>
        \A k \in 1..Len(FunctionF.body[1].statements) :
            FunctionF.body[1].statements[k].kind = "VarDecl" =>
                \A j \in 1..Len(LoweredUpTo(k).variables) :
                    LoweredUpTo(k).variables[j].var.offset <= ReservedUpTo(k)

\* The offsets of the homes [rbp-offset] that the lines `mov rax,
\* [rbp-offset]` and `mov [rbp-offset], rax` of the assembly read and write
AccessedOffsets ==
    {main_assembly[i].a.n : i \in {j \in 1..Len(main_assembly) :
        /\ main_assembly[j].op = "mov"
        /\ main_assembly[j].a.k = "mem" /\ main_assembly[j].a.r = "rbp"}}
    \cup {main_assembly[i].b.n : i \in {j \in 1..Len(main_assembly) :
        /\ main_assembly[j].op = "mov"
        /\ main_assembly[j].b.k = "mem" /\ main_assembly[j].b.r = "rbp"}}

\* C29: the 8 bytes [rbp-offset, rbp-offset+8) that the loads and stores of
\* two variables of a function access do not overlap, and none of them
\* reaches the saved frame pointer at [rbp, rbp+8).
C29_HomesApart ==
    (main_stage = "generated" /\ main_source \in FrameInputs) =>
        /\ \A offset \in AccessedOffsets : offset >= 8
        /\ \A offset \in AccessedOffsets : \A other \in AccessedOffsets :
              offset < other => offset + 8 <= other

Returned == pp_status \in {"done", "error"}

\* What the includer does at the line of main.c that a file name stands on
LineDoes(name) ==
    IF \E l \in CycleLines :
           l.text = << "#", "i", "n", "c", "l", "u", "d", "e", " ", "\"" >> \o name
                    \o << "\"", "\n" >>
    THEN (CHOOSE l \in CycleLines :
              l.text = << "#", "i", "n", "c", "l", "u", "d", "e", " ", "\"" >> \o name
                       \o << "\"", "\n" >>).does
    ELSE "fails"

\* Whether the includer, at token i of main.c, is to reach a line that
\* recurs: the lines before it all return
RECURSIVE ReachesCycle(_, _)
ReachesCycle(tokens, i) ==
    /\ i + 2 < Len(tokens)
    /\ IF At(tokens, i).kind # "Hash" THEN ReachesCycle(tokens, i + 1)
       ELSE IF ~IsInclude(At(tokens, i + 1)) THEN ReachesCycle(tokens, i + 2)
       ELSE /\ At(tokens, i + 2).kind = "StringLiteral"
            /\ \/ LineDoes(At(tokens, i + 2).payload) = "recurs"
               \/ /\ LineDoes(At(tokens, i + 2).payload) = "returns"
                  /\ ReachesCycle(tokens, i + 3)

\* The includer reaches a file that includes itself
RecursInput == pp_input \in CycleInputs /\ ReachesCycle(pp_input, 0)

\* C25: preprocess returns, a token vector or an error, exactly when the
\* includes it comes to reach no file that includes itself, directly or
\* through other files (an include behind a line that is an error is not
\* reached):
\* otherwise preprocess, process_include and preprocess again call each
\* other without end, and no error is returned.
C25_ReturnsIffAcyclic ==
    /\ [](RecursInput => pp_status = "running")
    /\ <>(RecursInput \/ Returned)

\* the includer is MaxDepth activations deep, two of them on the same file
C25_Witness ==
    /\ RecursInput
    /\ pp_status = "running"
    /\ Len(frames) = MaxDepth
    /\ \E j \in 1..Len(frames) : \E k \in (j + 1)..Len(frames) :
          FrameFile(frames[j]) = FrameFile(frames[k])

=============================================================================
